---------------------------- MODULE Spec2Model ----------------------------
(***************************************************************************)
(* Partial-product generation for C = A * AT (SpGEMM accelerator front     *)
(* end): the estimator, the pre-allocated and the streaming generators of  *)
(* rand00.py, cob_part1.py, partial_prod_gen.py and partial_prod_gen_adv.py *)
(* and the execution planner of their main(); the quantizer and its inverse *)
(* in cob_part3.py; the verifiers Mul_verifier.py and verifier.py; the      *)
(* entry points with their loaders; the pipeline test of test_spi.py.       *)
(*                                                                         *)
(* Arrays are 0-based in the source and 1-based sequences here: the source *)
(* index x is the sequence index x + 1.  Matrix values are integers: the   *)
(* float32 values the source multiplies are taken among those whose        *)
(* products are exact, so a value n stands for n * 2^-FracBits where the   *)
(* quantizer needs a magnitude and for n itself elsewhere.                 *)
(***************************************************************************)
EXTENDS Integers, Sequences, FiniteSets, TLC

\* ------------------------------------------------------------------ bounds
\* Shape of the input matrix A (NRows x NCols) and the most stored entries.
NRows == 2
NCols == 2
MaxNnz == 3
\* Largest chunk_size handed to a streaming generator (smallest is 1).
MaxChunk == 3
\* Stored values of A.
Values == {1, -3}

\* --------------------------------------------------------- python helpers
Min(a, b) == IF a < b THEN a ELSE b
Dist(a, b) == IF a >= b THEN a - b ELSE b - a
Max(a, b) == IF a > b THEN a ELSE b

\* seq[k] of Python, k in range (a negative k counts from the end).
PyGet(seq, k) == IF k < 0 THEN seq[Len(seq) + k + 1] ELSE seq[k + 1]
PyInRange(seq, k) == -Len(seq) <= k /\ k < Len(seq)

\* The bounds of the Python slice [lo:hi] of an array of length n.
PyClamp(x, n) == IF x < 0 THEN Max(x + n, 0) ELSE Min(x, n)
PySliceLen(lo, hi, n) == Max(PyClamp(hi, n) - PyClamp(lo, n), 0)
\* seq[lo:hi]
PySlice(seq, lo, hi) ==
    LET n == Len(seq)
        a == PyClamp(lo, n)
    IN [x \in 1..PySliceLen(lo, hi, n) |-> seq[a + x]]

RECURSIVE SumSeq(_)
SumSeq(s) == IF s = <<>> THEN 0 ELSE Head(s) + SumSeq(Tail(s))

\* A returned value or a raised exception.
Ret(v) == [ok |-> TRUE, val |-> v, exc |-> "none"]
Raise(e) == [ok |-> FALSE, val |-> 0, exc |-> e]

\* ------------------------------------------------------------ CSR matrices
\* A dense table maps a cell to its stored value, or to 0 when the cell holds
\* no stored entry (stored values are nonzero, see Values).
Cells == (0..NRows-1) \X (0..NCols-1)

\* scipy's CSR of the dense NRows x NCols table D: the stored entries row by
\* row, columns ascending in a row.
RowMajor(nr, nc) == [n \in 1..nr*nc |-> <<(n-1) \div nc, (n-1) % nc>>]
CSROf(D, nr, nc) ==
    LET present == SelectSeq(RowMajor(nr, nc), LAMBDA c: D[c] # 0)
    IN [shape0 |-> nr, shape1 |-> nc,
        indptr |-> [r \in 1..nr+1 |->
                      Cardinality({n \in 1..Len(present): present[n][1] < r-1})],
        indices |-> [n \in 1..Len(present) |-> present[n][2]],
        data |-> [n \in 1..Len(present) |-> D[present[n]]]]

\* The dense tables A is drawn from.
Tables == {D \in [Cells -> Values \cup {0}]:
              Cardinality({c \in Cells: D[c] # 0}) <= MaxNnz}

nnz(M) == PyGet(M.indptr, -1)
\* The row of A that holds its p-th stored entry (p counted from 0).
RowOf(M, p) == CHOOSE r \in 0..M.shape0-1: M.indptr[r+1] <= p /\ p < M.indptr[r+2]

Triple(v, i, j) == [v |-> v, i |-> i, j |-> j]
\* A slot of np.empty that nothing has been written to.
Uninit == [v |-> 0, i |-> -1, j |-> -1]

\* M.transpose().tocsr() (written M.T.tocsr() in cob_part1.py): row k of the
\* result lists the entries of column k of M, rows ascending.
RECURSIVE ConcatUpTo(_, _)
ConcatUpTo(f, n) == IF n = 0 THEN <<>> ELSE ConcatUpTo(f, n - 1) \o f[n]
TransposeCSR(M) ==
    LET all == [q \in 1..Len(M.indices) |-> q]
        col == [k \in 1..M.shape1 |->
                   SelectSeq(all, LAMBDA q: M.indices[q] = k - 1)]
        order == ConcatUpTo(col, M.shape1)
    IN [shape0 |-> M.shape1, shape1 |-> M.shape0,
        indptr |-> [r \in 1..M.shape1+1 |->
                      Len(ConcatUpTo(col, r - 1))],
        indices |-> [n \in 1..Len(order) |-> RowOf(M, order[n] - 1)],
        data |-> [n \in 1..Len(order) |-> M.data[order[n]]]]

\* The inputs of the well-formed runs: A and AT = A.transpose().tocsr().
WellFormedInputs ==
    {<<CSROf(D, NRows, NCols), TransposeCSR(CSROf(D, NRows, NCols))>>: D \in Tables}

\* Malformed CSR objects that scipy's constructor accepts (it runs
\* check_format(full_check=False): indptr[0] = 0 and indptr[-1] <= len(indices)
\* are checked, index bounds and the monotonicity of indptr are not): one
\* column index of A out of AT's row range, or one entry of AT.indptr moved.
BadCols == {-NCols - 1, -1, NCols}
CorruptIndex(M, q, k) == [M EXCEPT !.indices[q] = k]
\* The constructor's prune() cuts indices and data to indptr[-1] entries.
Prune(M) == [M EXCEPT !.indices = PySlice(M.indices, 0, PyGet(M.indptr, -1)),
                      !.data = PySlice(M.data, 0, PyGet(M.indptr, -1))]
CorruptIndptr(M, r, v) == Prune([M EXCEPT !.indptr[r] = v])
RawOf(a, at) ==
    {<<a, at>>}
    \cup {<<CorruptIndex(a, q, k), at>>: q \in 1..Len(a.indices), k \in BadCols}
    \cup {<<a, CorruptIndptr(at, r, v)>>:
             r \in 2..NCols+1, v \in 0..Len(at.indices)}
RawInputs == UNION {RawOf(w[1], w[2]): w \in WellFormedInputs}
WellFormed(a, at) == <<a, at>> \in WellFormedInputs

\* ------------------------------------------------------------------ state
VARIABLES
    family,        \* the source file whose generators run
    A, AT,         \* the CSR arguments
    pc,            \* where the run stands
    P,             \* allocation size (estimate_products' result)
    ptr,           \* write cursor of the pre-allocated arrays (write_pos)
    end,           \* rand00's local `end`
    end_bound,     \* whether `end` has been assigned
    arr,           \* the parallel arrays prod / i_idx / j_idx, slot by slot
    i, p,          \* row of A, position in A's stored entries
    overflow,      \* the branch `if end > P` of produce_products_prealloc taken
    pre_status,    \* "idle", "running", "returned", "raised"
    pre_exc,       \* the exception raised by the pre-allocated generator
    result,        \* the array the pre-allocated generator returned
    chunk_size,    \* streaming: buffer capacity
    buf,           \* streaming: buf_p / buf_i / buf_j, slot by slot
    buf_pos,       \* streaming: fill position (rand00 calls it ptr)
    cur,           \* streaming: position in the current batch
    total_written, \* streaming: rows counted as written
    csv,           \* streaming: the rows written to the sink
    str_status,    \* "idle", "running", "returned"
    products,      \* planner: estimated product count handed to main
    mode,          \* planner: "none", "prealloc", "stream"
    value,         \* quantizer: one float32 product, num * 2^exp
    scaled_int,    \* quantizer: the int32 written for it
    descaled,      \* cob_part3.py: the float32 read back, num * 2^exp
    sw_rows,       \* Mul_verifier.py: the rows of the reference file
    hw_rows,       \* Mul_verifier.py: the rows of the observed file
    report,        \* Mul_verifier.py: the report, a sequence of records
    bad,           \* Mul_verifier.py: the mismatch count printed
    exit_code,     \* Mul_verifier.py: -1 while running, then the status
    df_golden,     \* verifier.py: the golden rows, or "unreadable"
    df_coprocessor, \* verifier.py: the coprocessor rows, or "unreadable"
    tolerance,     \* verifier.py: the argument tolerance
    mismatch_threshold_percent, \* verifier.py: the argument of that name
    passed,        \* verifier.py: "none", then the returned TRUE / FALSE
    files,         \* verifier.py: the files written
    script,        \* entry points: the script that runs, "none" at rest
    input,         \* entry points: the input file of the run
    resolved,      \* loaders: user_col / item_col / rating_col
    matrix_built,  \* entry points: the CSR matrix has been constructed
    out_files,     \* entry points: the files the run has written
    exc,           \* entry points: the exception raised, "none" without
    returncode,    \* entry points: -1 while running, then the exit status
    test_pc,       \* test_spi.py: where the pipeline test stands
    in_csv,        \* test_spi.py: the data rows of in.csv
    csv_data,      \* test_spi.py: the rows load_csv_data returned
    frame_idx,     \* test_spi.py: the index of the frame being sent
    timeout,       \* send_spi_frame: clock edges waited for in_valid
    sent,          \* the frames put on the SPI lines, oldest first
    spi_cs_n,      \* dut.spi_cs_n
    in_valid,      \* dut.in_valid
    latched,       \* accelerator: frames taken from the SPI lines
    timing_stopped, \* dut.timing_stopped
    completion_timeout \* test_spi.py: clock edges waited for completion

quantVars == <<value, scaled_int, descaled>>
verifyVars == <<sw_rows, hw_rows, report, bad, exit_code>>
compareVars == <<df_golden, df_coprocessor, tolerance,
                 mismatch_threshold_percent, passed, files>>
entryVars == <<script, input, resolved, matrix_built, out_files, exc,
               returncode>>
pipeVars == <<test_pc, in_csv, csv_data, frame_idx, timeout, sent, spi_cs_n,
              in_valid, latched, timing_stopped, completion_timeout>>
toolVars == <<quantVars, verifyVars, compareVars, entryVars, pipeVars>>
vars == <<family, A, AT, pc, P, ptr, end, end_bound, arr, i, p, overflow,
          pre_status, pre_exc, result, chunk_size, buf, buf_pos, cur,
          total_written, csv, str_status, products, mode, toolVars>>
preVars == <<P, ptr, end, end_bound, arr, overflow, pre_status, pre_exc, result>>
strVars == <<chunk_size, buf, buf_pos, cur, total_written, csv, str_status>>
inVars == <<family, A, AT>>
planVars == <<products, mode>>

Families == {"rand00", "cob_part1", "partial_prod_gen", "partial_prod_gen_adv"}

\* The other programs have not run.
IdleQuant ==
    /\ value = [num |-> 0, exp |-> 0] /\ scaled_int = 0
    /\ descaled = [num |-> 0, exp |-> 0]
IdleVerify ==
    /\ sw_rows = <<>> /\ hw_rows = <<>> /\ report = <<>>
    /\ bad = 0 /\ exit_code = -1
IdleCompare ==
    /\ df_golden = <<>> /\ df_coprocessor = <<>>
    /\ tolerance = 0 /\ mismatch_threshold_percent = 0
    /\ passed = "none" /\ files = {}

NoColumns == [user |-> "None", item |-> "None", rating |-> "None"]
IdleEntry ==
    /\ script = "none"
    /\ input = [exists |-> FALSE, columns |-> <<>>, fault |-> FALSE]
    /\ resolved = NoColumns /\ matrix_built = FALSE
    /\ out_files = {} /\ exc = "none" /\ returncode = -1

IdlePipe ==
    /\ test_pc = "none" /\ in_csv = <<>> /\ csv_data = <<>>
    /\ frame_idx = 0 /\ timeout = 0 /\ sent = <<>>
    /\ spi_cs_n = 1 /\ in_valid = 0 /\ latched = 0
    /\ timing_stopped = 0 /\ completion_timeout = 0

InitRun ==
    /\ IdleQuant /\ IdleVerify /\ IdleCompare /\ IdleEntry /\ IdlePipe
    /\ pc = "call_pre"
    /\ P = 0 /\ ptr = 0 /\ end = 0 /\ end_bound = FALSE /\ arr = <<>>
    /\ i = 0 /\ p = 0 /\ overflow = FALSE
    /\ pre_status = "idle" /\ pre_exc = "none" /\ result = <<>>
    /\ chunk_size = 0 /\ buf = <<>> /\ buf_pos = 0 /\ cur = 0
    /\ total_written = 0 /\ csv = <<>> /\ str_status = "idle"
    /\ products = 0 /\ mode = "none"

Init ==
    /\ family \in Families
    /\ \E w \in WellFormedInputs: A = w[1] /\ AT = w[2]
    /\ InitRun

InitRaw ==
    /\ family = "rand00"
    /\ \E w \in RawInputs: A = w[1] /\ AT = w[2]
    /\ InitRun

\* ------------------------------------------------- rand00.py: the estimator
NnzPerRow(M) == [r \in 1..Len(M.indptr)-1 |-> M.indptr[r+1] - M.indptr[r]]

estimate_products(A_csr, AT_csr) ==
    LET nnz_per_AT_row == NnzPerRow(AT_csr)
        n == Len(nnz_per_AT_row)
        valid_indices_k == SelectSeq(A_csr.indices, LAMBDA k: k < n)
        total == SumSeq([q \in 1..Len(valid_indices_k) |->
                            PyGet(nnz_per_AT_row, valid_indices_k[q])])
    IN IF A_csr.shape1 # AT_csr.shape0 THEN Raise("ValueError")
       ELSE IF nnz(A_csr) = 0 THEN Ret(0)
       ELSE IF \E q \in 1..Len(valid_indices_k):
                   ~PyInRange(nnz_per_AT_row, valid_indices_k[q])
            THEN Raise("IndexError")
       ELSE IF total < 0 THEN Raise("ValueError")
       ELSE Ret(total)

\* --------------------------------------------------- numpy slice assignment
\* target[lo:hi] = vals for 1-D arrays: the shapes must agree, or vals holds
\* one element that is broadcast (also into an empty slice).
SliceAssignOK(target, lo, hi, vals) ==
    \/ Len(vals) = PySliceLen(lo, hi, Len(target))
    \/ Len(vals) = 1
SliceAssign(target, lo, hi, vals) ==
    LET a == PyClamp(lo, Len(target))
        s == PySliceLen(lo, hi, Len(target))
    IN [x \in 1..Len(target) |->
           IF a < x /\ x <= a + s
           THEN (IF Len(vals) = 1 THEN vals[1] ELSE vals[x - a])
           ELSE target[x]]

\* ProductsFor with the two index columns exchanged.
ProductsForSwapped(a_ik, row_i, at_csr, bs, be) ==
    LET at_kj_values == PySlice(at_csr.data, bs, be)
        at_kj_indices == PySlice(at_csr.indices, bs, be)
    IN [x \in 1..Len(at_kj_values) |->
           Triple(a_ik * at_kj_values[x], at_kj_indices[x], row_i)]

\* The triples a_ik * AT[k, :] of one stored entry (i, k, a_ik) of A, in the
\* order of row k of AT: rows bs..be-1 of AT's arrays.
ProductsFor(a_ik, row_i, at_csr, bs, be) ==
    LET at_kj_values == PySlice(at_csr.data, bs, be)
        at_kj_indices == PySlice(at_csr.indices, bs, be)
    IN [x \in 1..Len(at_kj_values) |->
           Triple(a_ik * at_kj_values[x], row_i, at_kj_indices[x])]

\* ------------------------------ rand00.py: produce_products_prealloc
\* Lines 131-155: the estimate, the early return on P == 0, the allocation.
R_PreCall ==
    /\ pc = "call_pre" /\ family = "rand00"
    /\ LET e == estimate_products(A, AT)
       IN IF ~e.ok
          THEN /\ pre_status' = "raised" /\ pre_exc' = e.exc
               /\ pc' = "call_stream"
               /\ UNCHANGED <<P, arr, ptr, i, p, result>>
          ELSE IF e.val = 0
          THEN /\ pre_status' = "returned" /\ result' = <<>>
               /\ pc' = "call_stream"
               /\ UNCHANGED <<P, arr, ptr, i, p, pre_exc>>
          ELSE /\ P' = e.val
               /\ arr' = [x \in 1..e.val |-> Uninit]
               /\ ptr' = 0 /\ i' = 0 /\ p' = PyGet(A.indptr, 0)
               /\ pre_status' = "running"
               /\ pc' = "pre_inner"
               /\ UNCHANGED <<pre_exc, result>>
    /\ UNCHANGED <<end, end_bound, overflow>>
    /\ UNCHANGED <<inVars, strVars, planVars, toolVars>>

\* The bounds check of line 179.
R_WouldExceed(e, alloc) == e > alloc

\* Lines 158-202: one pass of the inner loop, for the stored entry p of row i.
R_PreNonzero ==
    /\ pc = "pre_inner" /\ family = "rand00"
    /\ p < PyGet(A.indptr, i + 1)
    /\ LET k == PyGet(A.indices, p)
           a_ik == PyGet(A.data, p)
       IN IF k < 0 \/ k >= AT.shape0
          THEN \* line 165: continue
               /\ p' = p + 1
               /\ UNCHANGED <<pc, preVars>>
          ELSE LET bs == PyGet(AT.indptr, k)
                   be == PyGet(AT.indptr, k + 1)
                   nnz_k == be - bs
                   e == ptr + nnz_k
                   products_for_aik == ProductsFor(a_ik, i, AT, bs, be)
               IN IF nnz_k = 0
                  THEN \* line 173: continue
                       /\ p' = p + 1
                       /\ UNCHANGED <<pc, preVars>>
                  ELSE IF R_WouldExceed(e, P)
                  THEN \* lines 180-186: trim to the cursor, P = ptr, break
                       /\ end' = e /\ end_bound' = TRUE
                       /\ arr' = PySlice(arr, 0, ptr)
                       /\ P' = ptr
                       /\ overflow' = TRUE
                       /\ p' = PyGet(A.indptr, i + 1)
                       /\ UNCHANGED <<pc, ptr, pre_status, pre_exc, result>>
                  ELSE IF ~SliceAssignOK(arr, ptr, e, products_for_aik)
                  THEN \* line 197 raises ValueError (shape mismatch)
                       /\ end' = e /\ end_bound' = TRUE
                       /\ pre_status' = "raised" /\ pre_exc' = "ValueError"
                       /\ pc' = "call_stream"
                       /\ UNCHANGED <<p, P, ptr, arr, overflow, result>>
                  ELSE /\ end' = e /\ end_bound' = TRUE
                       /\ arr' = SliceAssign(arr, ptr, e, products_for_aik)
                       /\ ptr' = e
                       /\ p' = p + 1
                       /\ UNCHANGED <<pc, P, overflow, pre_status, pre_exc, result>>
    /\ UNCHANGED <<i, inVars, strVars, planVars, toolVars>>

\* Lines 204-206: after the inner loop of row i, `if end > P: break`; the
\* read of `end` raises UnboundLocalError when no pass has assigned it.
R_PreRowEnd ==
    /\ pc = "pre_inner" /\ family = "rand00"
    /\ p >= PyGet(A.indptr, i + 1)
    /\ IF ~end_bound
       THEN /\ pre_status' = "raised" /\ pre_exc' = "UnboundLocalError"
            /\ pc' = "call_stream"
            /\ UNCHANGED <<i, p>>
       ELSE IF end > P \/ i + 1 = A.shape0
       THEN /\ pc' = "pre_final"
            /\ UNCHANGED <<i, p, pre_status, pre_exc>>
       ELSE /\ i' = i + 1
            /\ p' = PyGet(A.indptr, i + 1)
            /\ UNCHANGED <<pc, pre_status, pre_exc>>
    /\ UNCHANGED <<P, ptr, end, end_bound, arr, overflow, result>>
    /\ UNCHANGED <<inVars, strVars, planVars, toolVars>>

\* Lines 213-224: trim to the cursor when ptr != P, stack the columns, return.
R_PreFinish ==
    /\ pc = "pre_final" /\ family = "rand00"
    /\ result' = IF ptr # P THEN PySlice(arr, 0, ptr) ELSE arr
    /\ pre_status' = "returned"
    /\ pc' = "call_stream"
    /\ UNCHANGED <<P, ptr, end, end_bound, arr, overflow, pre_exc, i, p>>
    /\ UNCHANGED <<inVars, strVars, planVars, toolVars>>

\* -------------------------------- rand00.py: produce_products_stream
\* Lines 237-256: the buffers, the counters, the header row.
R_StrCall ==
    /\ pc = "call_stream" /\ family = "rand00"
    /\ \E c \in 1..MaxChunk:
          /\ chunk_size' = c
          /\ buf' = [x \in 1..c |-> Uninit]
    /\ total_written' = 0 /\ buf_pos' = 0 /\ cur' = 0 /\ csv' = <<>>
    /\ str_status' = "running"
    /\ i' = 0 /\ p' = 0
    /\ pc' = "str_inner"
    /\ UNCHANGED <<inVars, preVars, planVars, toolVars>>

\* Lines 263-276 for the stored entry p of A: the batch a_ik * AT[k, :], or
\* nothing when the entry is skipped (lines 266 and 271).
R_Batch(q) ==
    LET k == PyGet(A.indices, q)
        bs == PyGet(AT.indptr, k)
        be == PyGet(AT.indptr, k + 1)
    IN IF k < 0 \/ k >= AT.shape0 THEN <<>>
       ELSE IF be - bs = 0 THEN <<>>
       ELSE ProductsFor(PyGet(A.data, q), RowOf(A, q), AT, bs, be)
\* nnz_k of line 270 (0 for a skipped entry).
R_nnz_k(q) ==
    LET k == PyGet(A.indices, q)
    IN IF k < 0 \/ k >= AT.shape0 THEN 0
       ELSE PyGet(AT.indptr, k + 1) - PyGet(AT.indptr, k)

\* Lines 262-281: the next stored entry of A; the while loop of line 281 is
\* entered when the batch holds something.
R_StrNonzero ==
    /\ pc = "str_inner" /\ family = "rand00"
    /\ p < nnz(A)
    /\ i' = RowOf(A, p)
    /\ cur' = 0
    /\ IF 0 < R_nnz_k(p)
       THEN pc' = "str_write" /\ p' = p
       ELSE pc' = "str_inner" /\ p' = p + 1
    /\ UNCHANGED <<chunk_size, buf, buf_pos, total_written, csv, str_status>>
    /\ UNCHANGED <<inVars, preVars, planVars, toolVars>>

\* Line 285.
R_NumToWrite(remaining, space_left) == Min(remaining, space_left)
\* The flush of line 302 taken one slot late.
R_BufferFullLate(pos, size) == pos > size
\* Line 302.
R_BufferFull(pos, size) == pos = size

\* Lines 281-307: one pass of the while loop.  Line 293 raises ValueError
\* when the batch is shorter than nnz_k (AT.data pruned below AT.indptr).
R_StrWrite ==
    /\ pc = "str_write" /\ family = "rand00"
    /\ LET nnz_k == R_nnz_k(p)
           products_for_aik == R_Batch(p)
           space_left == chunk_size - buf_pos
           num_to_write == R_NumToWrite(nnz_k - cur, space_left)
           write_end == buf_pos + num_to_write
           piece == PySlice(products_for_aik, cur, cur + num_to_write)
           filled == SliceAssign(buf, buf_pos, write_end, piece)
       IN IF ~SliceAssignOK(buf, buf_pos, write_end, piece)
          THEN /\ str_status' = "raised"
               /\ pc' = "done"
               /\ UNCHANGED <<p, buf, buf_pos, cur, total_written, csv>>
          ELSE /\ buf' = filled
               /\ cur' = cur + num_to_write
               /\ IF R_BufferFull(write_end, chunk_size)
                  THEN /\ csv' = csv \o filled
                       /\ total_written' = total_written + write_end
                       /\ buf_pos' = 0
                  ELSE /\ buf_pos' = write_end
                       /\ UNCHANGED <<csv, total_written>>
               /\ IF cur + num_to_write < nnz_k
                  THEN UNCHANGED <<pc, p>>
                  ELSE pc' = "str_inner" /\ p' = p + 1
               /\ UNCHANGED str_status
    /\ UNCHANGED <<i, chunk_size>>
    /\ UNCHANGED <<inVars, preVars, planVars, toolVars>>

\* Lines 311-319: the final flush and the return.
R_StrFinish ==
    /\ pc = "str_inner" /\ family = "rand00"
    /\ p >= nnz(A)
    /\ IF buf_pos > 0
       THEN /\ csv' = csv \o PySlice(buf, 0, buf_pos)
            /\ total_written' = total_written + buf_pos
       ELSE UNCHANGED <<csv, total_written>>
    /\ str_status' = "returned"
    /\ pc' = "done"
    /\ UNCHANGED <<i, p, chunk_size, buf, buf_pos, cur>>
    /\ UNCHANGED <<inVars, preVars, planVars, toolVars>>


\* ------------------------------------------------ cob_part1.py: quantizer
\* A stored value n is the float32 n * 2^-FracBits, a product m of two of
\* them is m * 2^-(2 * FracBits), exactly.
FracBits == 9
SCALE_FACTOR == 65536
Pow2(n) == 2 ^ n
\* float to int32 conversion of numpy's astype: the fraction is dropped.
TruncDiv(a, b) == IF a >= 0 THEN a \div b ELSE -((-a) \div b)
\* Line 168 / 220: (products * scale_factor).astype(np.int32), one element.
Quantize(m, scale_factor) == TruncDiv(m * scale_factor, Pow2(2 * FracBits))
QuantizeAll(ts, scale_factor) ==
    [x \in 1..Len(ts) |-> [ts[x] EXCEPT !.v = Quantize(ts[x].v, scale_factor)]]
\* products[products != 0] and the like: the rows whose value is not zero.
NonZero(ts) == SelectSeq(ts, LAMBDA t: t.v # 0)

\* ------------------------------------------- cob_part1.py: the estimator
cob_estimate_products(A_csr, AT_csr) ==
    LET nnz_per_AT_row == NnzPerRow(AT_csr)
        n == Len(nnz_per_AT_row)
        valid_indices_k == SelectSeq(A_csr.indices, LAMBDA k: k < n)
    IN IF nnz(A_csr) = 0 THEN Ret(0)
       ELSE IF \E q \in 1..Len(valid_indices_k):
                   ~PyInRange(nnz_per_AT_row, valid_indices_k[q])
            THEN Raise("IndexError")
       ELSE Ret(SumSeq([q \in 1..Len(valid_indices_k) |->
                           PyGet(nnz_per_AT_row, valid_indices_k[q])]))

\* Lines 137-145 / 209-219 for the stored entry q of A: a_ik * AT[k, :] as
\* triples, nothing when row k of AT is empty.
S_Batch(q) ==
    LET k == PyGet(A.indices, q)
        at_row_start == PyGet(AT.indptr, k)
        at_row_end == PyGet(AT.indptr, k + 1)
    IN IF at_row_start = at_row_end THEN <<>>
       ELSE ProductsFor(PyGet(A.data, q), RowOf(A, q), AT,
                        at_row_start, at_row_end)

\* ------------- cob_part1.py: produce_similarity_products_scipy_optimized
\* Lines 109-122: AT_csr (the AT of the state), the estimate, the allocation.
S_PreCallBody ==
    LET e == cob_estimate_products(A, AT)
    IN IF ~e.ok
       THEN /\ pre_status' = "raised" /\ pre_exc' = e.exc
            /\ pc' = "call_stream"
            /\ UNCHANGED <<P, arr, ptr, i, p>>
       ELSE /\ P' = e.val
            /\ arr' = [x \in 1..e.val |-> Uninit]
            /\ ptr' = 0 /\ i' = 0 /\ p' = 0
            /\ pre_status' = "running"
            /\ pc' = "pre_inner"
            /\ UNCHANGED pre_exc
C_PreCall ==
    /\ pc = "call_pre" /\ family = "cob_part1"
    /\ S_PreCallBody
    /\ UNCHANGED <<end, end_bound, overflow, result>>
    /\ UNCHANGED <<inVars, strVars, planVars, toolVars>>

\* Lines 136-154: one pass of the inner loop (rows without stored entries are
\* passed over by line 130).
S_PreNonzeroBody ==
    LET batch == S_Batch(p)
        end_pos == ptr + Len(batch)
    IN /\ i' = RowOf(A, p)
       /\ IF batch = <<>>
          THEN /\ p' = p + 1
               /\ UNCHANGED <<pc, arr, ptr, pre_status, pre_exc>>
          ELSE IF ~SliceAssignOK(arr, ptr, end_pos, batch)
          THEN /\ pre_status' = "raised" /\ pre_exc' = "ValueError"
               /\ pc' = "call_stream"
               /\ UNCHANGED <<p, arr, ptr>>
          ELSE /\ arr' = SliceAssign(arr, ptr, end_pos, batch)
               /\ ptr' = end_pos
               /\ p' = p + 1
               /\ UNCHANGED <<pc, pre_status, pre_exc>>
C_PreNonzero ==
    /\ pc = "pre_inner" /\ family = "cob_part1"
    /\ p < nnz(A)
    /\ S_PreNonzeroBody
    /\ UNCHANGED <<P, end, end_bound, overflow, result>>
    /\ UNCHANGED <<inVars, strVars, planVars, toolVars>>

\* Lines 156-166: trim to the cursor, drop the products that are zero.
S_TrimAndFilter(a, write_pos, total_products) ==
    NonZero(IF write_pos < total_products THEN PySlice(a, 0, write_pos) ELSE a)
\* Lines 156-170: trim, filter, then scale and convert.
C_PreResult(a, write_pos, total_products, scale_factor) ==
    QuantizeAll(S_TrimAndFilter(a, write_pos, total_products), scale_factor)
C_PreFinish ==
    /\ pc = "pre_inner" /\ family = "cob_part1"
    /\ p >= nnz(A)
    /\ result' = C_PreResult(arr, ptr, P, SCALE_FACTOR)
    /\ pre_status' = "returned"
    /\ pc' = "call_stream"
    /\ UNCHANGED <<P, ptr, end, end_bound, arr, overflow, pre_exc, i, p>>
    /\ UNCHANGED <<inVars, strVars, planVars, toolVars>>

\* ----------------------- cob_part1.py: produce_similarity_products_stream
\* Lines 185-194: the buffers, the counters, the header row.
S_StrCallBody ==
    /\ \E c \in 1..MaxChunk:
          /\ chunk_size' = c
          /\ buf' = [x \in 1..c |-> Uninit]
    /\ total_written' = 0 /\ buf_pos' = 0 /\ cur' = 0 /\ csv' = <<>>
    /\ str_status' = "running"
    /\ i' = 0 /\ p' = 0
    /\ pc' = "str_inner"
C_StrCall ==
    /\ pc = "call_stream" /\ family = "cob_part1"
    /\ S_StrCallBody
    /\ UNCHANGED <<inVars, preVars, planVars, toolVars>>

\* S_NeedFlush flushing one slot too late.
S_NeedFlushLate(pos, valid_count, size) == pos + valid_count > size + 1

\* Line 230: the buffer cannot take the batch.
S_NeedFlush(pos, valid_count, size) == pos + valid_count > size
\* Line 236: the batch fits an empty buffer.
S_Fits(valid_count, size) == valid_count <= size

\* Lines 223-240: flush when the batch does not fit, then store it if it can
\* fit at all.
S_Store(valid) ==
    LET valid_count == Len(valid)
        flush == S_NeedFlush(buf_pos, valid_count, chunk_size) /\ buf_pos > 0
        pos == IF flush THEN 0 ELSE buf_pos
    IN IF valid_count = 0
       THEN UNCHANGED <<buf, buf_pos, csv, total_written>>
       ELSE /\ IF flush
               THEN /\ csv' = csv \o PySlice(buf, 0, buf_pos)
                    /\ total_written' = total_written + buf_pos
               ELSE UNCHANGED <<csv, total_written>>
            /\ IF S_Fits(valid_count, chunk_size)
               THEN /\ buf' = SliceAssign(buf, pos, pos + valid_count, valid)
                    /\ buf_pos' = pos + valid_count
               ELSE /\ buf_pos' = pos
                    /\ UNCHANGED buf

\* Lines 219-226: the quantized products of the batch that are not zero.
C_Valid(q, scale_factor) == NonZero(QuantizeAll(S_Batch(q), scale_factor))

\* Lines 208-240: one pass of the inner loop.
C_StrNonzero ==
    /\ pc = "str_inner" /\ family = "cob_part1"
    /\ p < nnz(A)
    /\ i' = RowOf(A, p)
    /\ S_Store(C_Valid(p, SCALE_FACTOR))
    /\ p' = p + 1
    /\ UNCHANGED <<pc, chunk_size, cur, str_status>>
    /\ UNCHANGED <<inVars, preVars, planVars, toolVars>>

\* Lines 242-247: the final flush and the return.
S_StrFinishBody ==
    /\ IF buf_pos > 0
       THEN /\ csv' = csv \o PySlice(buf, 0, buf_pos)
            /\ total_written' = total_written + buf_pos
       ELSE UNCHANGED <<csv, total_written>>
    /\ str_status' = "returned"
    /\ pc' = "done"
    /\ UNCHANGED <<i, p, chunk_size, buf, buf_pos, cur>>
C_StrFinish ==
    /\ pc = "str_inner" /\ family = "cob_part1"
    /\ p >= nnz(A)
    /\ S_StrFinishBody
    /\ UNCHANGED <<inVars, preVars, planVars, toolVars>>

\* ---------------------------- partial_prod_gen_adv.py: both generators
\* The generators of cob_part1.py without the quantizer: lines 116-191
\* (pre-allocated) and lines 193-274 (streaming).
A_PreCall ==
    /\ pc = "call_pre" /\ family = "partial_prod_gen_adv"
    /\ S_PreCallBody
    /\ UNCHANGED <<end, end_bound, overflow, result>>
    /\ UNCHANGED <<inVars, strVars, planVars, toolVars>>
A_PreNonzero ==
    /\ pc = "pre_inner" /\ family = "partial_prod_gen_adv"
    /\ p < nnz(A)
    /\ S_PreNonzeroBody
    /\ UNCHANGED <<P, end, end_bound, overflow, result>>
    /\ UNCHANGED <<inVars, strVars, planVars, toolVars>>
A_PreFinish ==
    /\ pc = "pre_inner" /\ family = "partial_prod_gen_adv"
    /\ p >= nnz(A)
    /\ result' = S_TrimAndFilter(arr, ptr, P)
    /\ pre_status' = "returned"
    /\ pc' = "call_stream"
    /\ UNCHANGED <<P, ptr, end, end_bound, arr, overflow, pre_exc, i, p>>
    /\ UNCHANGED <<inVars, strVars, planVars, toolVars>>
A_StrCall ==
    /\ pc = "call_stream" /\ family = "partial_prod_gen_adv"
    /\ S_StrCallBody
    /\ UNCHANGED <<inVars, preVars, planVars, toolVars>>
\* Lines 243-249.
A_Valid(q) == NonZero(S_Batch(q))
A_StrNonzero ==
    /\ pc = "str_inner" /\ family = "partial_prod_gen_adv"
    /\ p < nnz(A)
    /\ i' = RowOf(A, p)
    /\ S_Store(A_Valid(p))
    /\ p' = p + 1
    /\ UNCHANGED <<pc, chunk_size, cur, str_status>>
    /\ UNCHANGED <<inVars, preVars, planVars, toolVars>>
A_StrFinish ==
    /\ pc = "str_inner" /\ family = "partial_prod_gen_adv"
    /\ p >= nnz(A)
    /\ S_StrFinishBody
    /\ UNCHANGED <<inVars, preVars, planVars, toolVars>>

\* ------------------ partial_prod_gen.py: produce_products_scipy_optimized
P_PreCall ==
    /\ pc = "call_pre" /\ family = "partial_prod_gen"
    /\ S_PreCallBody
    /\ UNCHANGED <<end, end_bound, overflow, result>>
    /\ UNCHANGED <<inVars, strVars, planVars, toolVars>>
P_PreNonzero ==
    /\ pc = "pre_inner" /\ family = "partial_prod_gen"
    /\ p < nnz(A)
    /\ S_PreNonzeroBody
    /\ UNCHANGED <<P, end, end_bound, overflow, result>>
    /\ UNCHANGED <<inVars, strVars, planVars, toolVars>>
\* Lines 101-114: trim, filter, stack; the values stay floats.
P_PreFinish ==
    /\ pc = "pre_inner" /\ family = "partial_prod_gen"
    /\ p >= nnz(A)
    /\ result' = S_TrimAndFilter(arr, ptr, P)
    /\ pre_status' = "returned"
    /\ pc' = "call_stream"
    /\ UNCHANGED <<P, ptr, end, end_bound, arr, overflow, pre_exc, i, p>>
    /\ UNCHANGED <<inVars, strVars, planVars, toolVars>>

\* ----------- partial_prod_gen.py: produce_products_stream_scipy_optimized
P_StrCall ==
    /\ pc = "call_stream" /\ family = "partial_prod_gen"
    /\ S_StrCallBody
    /\ UNCHANGED <<inVars, preVars, planVars, toolVars>>

\* Lines 142-157: the next stored entry of A; the while loop of line 157 is
\* entered when row k of AT holds something (cur is at_offset).
P_StrNonzero ==
    /\ pc = "str_inner" /\ family = "partial_prod_gen"
    /\ p < nnz(A)
    /\ i' = RowOf(A, p)
    /\ cur' = 0
    /\ IF Len(S_Batch(p)) > 0
       THEN pc' = "str_write" /\ p' = p
       ELSE pc' = "str_inner" /\ p' = p + 1
    /\ UNCHANGED <<chunk_size, buf, buf_pos, total_written, csv, str_status>>
    /\ UNCHANGED <<inVars, preVars, planVars, toolVars>>

\* The flush of line 184 taken only past the end of the buffer.
P_HighWaterLate(pos, size) == pos > size
\* Line 184: buf_pos >= chunk_size * 0.9 (the sizes of the model keep
\* chunk_size * 0.9 away from the integers, where the float product is exact
\* enough for the comparison).
P_HighWater(pos, size) == 10 * pos >= 9 * size
\* Line 174.
P_HasRoom(pos, valid_count, size) == pos + valid_count <= size

\* Lines 157-187: one pass of the while loop.
P_StrWrite ==
    /\ pc = "str_write" /\ family = "partial_prod_gen"
    /\ LET batch == S_Batch(p)
           remaining_products == Len(batch) - cur
           space_left == chunk_size - buf_pos
           write_count == Min(remaining_products, space_left)
           at_end == cur + write_count
           valid == NonZero(PySlice(batch, cur, at_end))
           valid_count == Len(valid)
           stored == valid_count > 0 /\ P_HasRoom(buf_pos, valid_count, chunk_size)
           filled == IF stored
                     THEN SliceAssign(buf, buf_pos, buf_pos + valid_count, valid)
                     ELSE buf
           pos == IF stored THEN buf_pos + valid_count ELSE buf_pos
       IN /\ buf' = filled
          /\ cur' = at_end
          /\ IF P_HighWater(pos, chunk_size)
             THEN /\ csv' = csv \o PySlice(filled, 0, pos)
                  /\ total_written' = total_written + pos
                  /\ buf_pos' = 0
             ELSE /\ buf_pos' = pos
                  /\ UNCHANGED <<csv, total_written>>
          /\ IF remaining_products - write_count > 0
             THEN UNCHANGED <<pc, p>>
             ELSE pc' = "str_inner" /\ p' = p + 1
    /\ UNCHANGED <<i, chunk_size, str_status>>
    /\ UNCHANGED <<inVars, preVars, planVars, toolVars>>

P_StrFinish ==
    /\ pc = "str_inner" /\ family = "partial_prod_gen"
    /\ p >= nnz(A)
    /\ S_StrFinishBody
    /\ UNCHANGED <<inVars, preVars, planVars, toolVars>>

\* ------------------------------------- main: the choice of the strategy
\* cob_part1.py lines 270 and 305 (rand00.py lines 337 and 388 give the same
\* values: itemsize of float32 plus two int32).
MAX_RAM_GiB == 4
bytes_per_triple == 12
\* How far around the switching point the planner's input is drawn.
PlanSpan == 15

\* est_mem_GiB <= MAX_RAM_GiB, where est_mem_GiB is products *
\* bytes_per_triple / 1024**3.  The division is exact in float64 for every
\* count below 2^53 / 12, so the test compares integers; both sides are
\* divided by 4 here, which keeps them below 2^31.
FitsRAM(est_products) ==
    est_products * (bytes_per_triple \div 4) <= MAX_RAM_GiB * (Pow2(30) \div 4)

\* select_mode with the two strategies exchanged.
select_mode_swapped(est_products) ==
    IF FitsRAM(est_products) THEN "stream" ELSE "prealloc"

\* mode = "prealloc" if est_mem_GiB <= MAX_RAM_GiB else "stream"
select_mode(est_products) ==
    IF FitsRAM(est_products) THEN "prealloc" ELSE "stream"

\* The largest count that still fits.
PlanCentre == (MAX_RAM_GiB * (Pow2(30) \div 4)) \div (bytes_per_triple \div 4)

\* main after estimate_products has returned: the estimate is in products.
InitPlan ==
    /\ IdleQuant /\ IdleVerify /\ IdleCompare /\ IdleEntry /\ IdlePipe
    /\ family \in {"rand00", "cob_part1"}
    /\ A = CSROf([c \in Cells |-> 0], NRows, NCols)
    /\ AT = TransposeCSR(A)
    /\ P = 0 /\ ptr = 0 /\ end = 0 /\ end_bound = FALSE /\ arr = <<>>
    /\ i = 0 /\ p = 0 /\ overflow = FALSE
    /\ pre_status = "idle" /\ pre_exc = "none" /\ result = <<>>
    /\ chunk_size = 0 /\ buf = <<>> /\ buf_pos = 0 /\ cur = 0
    /\ total_written = 0 /\ csv = <<>> /\ str_status = "idle"
    /\ pc = "plan"
    /\ products \in (PlanCentre - PlanSpan)..(PlanCentre + PlanSpan)
    /\ mode = "none"

\* The assignment to mode.
M_SelectMode ==
    /\ pc = "plan"
    /\ mode' = select_mode(products)
    /\ pc' = "planned"
    /\ UNCHANGED <<products, inVars, preVars, strVars, i, p, toolVars>>

\* ------------------- cob_part1.py / cob_part3.py: one value, there and back
\* The generators at rest, for the runs of the other programs.
IdleGenerators ==
    /\ A = CSROf([c \in Cells |-> 0], NRows, NCols)
    /\ AT = TransposeCSR(A)
    /\ P = 0 /\ ptr = 0 /\ end = 0 /\ end_bound = FALSE /\ arr = <<>>
    /\ i = 0 /\ p = 0 /\ overflow = FALSE
    /\ pre_status = "idle" /\ pre_exc = "none" /\ result = <<>>
    /\ chunk_size = 0 /\ buf = <<>> /\ buf_pos = 0 /\ cur = 0
    /\ total_written = 0 /\ csv = <<>> /\ str_status = "idle"
    /\ products = 0 /\ mode = "none"

\* Largest |num| of the products drawn.
MaxMant == 12

\* A float is the record [num, exp], the number num * 2^exp.
Float(n, e) == [num |-> n, exp |-> e]
Log2(s) == CHOOSE k \in 0..30: Pow2(k) = s
\* products * scale_factor for a scale factor that is a power of two: the
\* exponent moves, the product is exact.
FMulPow2(f, s) == Float(f.num, f.exp + Log2(s))
Int32Max == Pow2(30) - 1 + Pow2(30)
Int32Min == -Pow2(30) - Pow2(30)
\* The float lies in the range of int32 once its fraction is dropped.
FitsInt32(f) ==
    \/ f.exp <= 0
    \/ /\ Int32Min \div Pow2(f.exp) <= f.num
       /\ f.num <= Int32Max \div Pow2(f.exp)
\* The float with its fraction dropped (C conversion, toward zero).
Trunc(f) ==
    IF f.exp >= 0 THEN f.num * Pow2(f.exp) ELSE TruncDiv(f.num, Pow2(-f.exp))
\* The low 32 bits of an integer float as a signed number (2 <= exp <= 30).
Wrap32(f) ==
    LET period == 4 * Pow2(30 - f.exp)
        r == f.num % period
    IN IF 2 * r >= period THEN (r - period) * Pow2(f.exp) ELSE r * Pow2(f.exp)
Saturate32(f) == IF f.num > 0 THEN Int32Max ELSE Int32Min
\* .astype(np.int32) of line 168 / 220.  Out of range the C conversion is
\* undefined: x86 gives the "integer indefinite" value Int32Min, AArch64
\* saturates, a conversion through 64 bits keeps the low 32 bits.  No outcome
\* raises.
astype_int32(f) ==
    IF FitsInt32(f) THEN {Trunc(f)}
    ELSE {Int32Min, Saturate32(f), Wrap32(f)}

\* .astype(np.float32) of cob_part3.py line 76: 24 bits of the integer are
\* kept, round to nearest, ties to even.
astype_float32(q) ==
    IF -Pow2(24) <= q /\ q <= Pow2(24) THEN Float(q, 0)
    ELSE LET fits(s) == -Pow2(24) <= q \div Pow2(s) /\ q \div Pow2(s) < Pow2(24)
             s == CHOOSE t \in 1..8: fits(t) /\ \A u \in 1..t-1: ~fits(u)
             lo == q \div Pow2(s)
             rem == q % Pow2(s)
             half == Pow2(s - 1)
         IN Float(IF rem > half \/ (rem = half /\ lo % 2 = 1) THEN lo + 1 ELSE lo,
                  s)
\* descaled_values = values.astype(np.float32) / scale_factor
Dequantize(q, scale_factor) ==
    LET f == astype_float32(q) IN Float(f.num, f.exp - Log2(scale_factor))

\* One product: below one quantization step, at the step, and near 2^31
\* once scaled.
ValueExps == {-2 * FracBits, -Log2(SCALE_FACTOR), 29 - Log2(SCALE_FACTOR)}
InitQuant ==
    /\ family = "cob_part1"
    /\ IdleGenerators /\ IdleVerify /\ IdleCompare /\ IdleEntry /\ IdlePipe
    /\ pc = "q_value"
    /\ \E n \in -MaxMant..MaxMant, e \in ValueExps: value = Float(n, e)
    /\ scaled_int = 0
    /\ descaled = Float(0, 0)

\* cob_part1.py line 168 / 220 for one element.
Q_Quantize ==
    /\ pc = "q_value"
    /\ scaled_int' \in astype_int32(FMulPow2(value, SCALE_FACTOR))
    /\ pc' = "q_scaled"
    /\ UNCHANGED <<value, descaled, verifyVars, compareVars, entryVars,
                   pipeVars>>
    /\ UNCHANGED <<inVars, preVars, strVars, planVars, i, p>>

\* cob_part3.py line 76 for the same element.
Q_Dequantize ==
    /\ pc = "q_scaled"
    /\ descaled' = Dequantize(scaled_int, SCALE_FACTOR)
    /\ pc' = "q_descaled"
    /\ UNCHANGED <<value, scaled_int, verifyVars, compareVars, entryVars,
                   pipeVars>>
    /\ UNCHANGED <<inVars, preVars, strVars, planVars, i, p>>

QuantNext == Q_Quantize \/ Q_Dequantize

\* --------------------------------------------------------- Mul_verifier.py
\* Values are counted in units of 10^-7, so that 4.0000005 is a number of
\* units; the values of the model are exact in float64 to well below a unit.
UnitsPerOne == 10 ^ 7
\* TOL = 1e-6, and the rtol = 1e-5 that np.isclose applies by default.
TOL == 10
RtolInv == 100000
\* Rows per input file.
MaxRows == 2

Abs(x) == IF x >= 0 THEN x ELSE -x
\* isclose demanding equal values.
isclose_exact(a, b, atol) == a = b
\* np.isclose(a, b, atol=atol): |a - b| <= atol + rtol * |b|.
isclose(a, b, atol) == Dist(a, b) - atol <= Abs(b) \div RtolInv

\* df.groupby([row_idx_i, col_idx_j], sort=False)[col].sum(): one row per
\* key, keys in the order of their first row.
RECURSIVE GroupSum(_)
GroupSum(rows) ==
    IF rows = <<>> THEN <<>>
    ELSE LET n == Len(rows)
             last == rows[n]
             before == GroupSum(SubSeq(rows, 1, n - 1))
             at == {x \in 1..Len(before):
                       before[x].i = last.i /\ before[x].j = last.j}
         IN IF at = {}
            THEN Append(before, [i |-> last.i, j |-> last.j, v |-> last.v])
            ELSE [x \in 1..Len(before) |->
                     IF x \in at
                     THEN [before[x] EXCEPT !.v = before[x].v + last.v]
                     ELSE before[x]]

\* load_sw, lines 38-46: the header must name the three columns; the rows
\* whose row index reads 0.5 are dropped; the rest is grouped.
load_sw(file) ==
    IF ~file.header_ok THEN Raise("ValueError")
    ELSE Ret(GroupSum(SelectSeq(file.rows, LAMBDA r: ~r.half)))

\* load_hw, lines 50-67: an empty file makes read_csv raise, two columns are
\* (col, val) of row 0, three are (row, col, val), anything else is refused.
load_hw(file) ==
    IF file.rows = <<>> THEN Raise("EmptyDataError")
    ELSE IF file.cols = 2
    THEN Ret(GroupSum([x \in 1..Len(file.rows) |->
                          [file.rows[x] EXCEPT !.i = 0]]))
    ELSE IF file.cols = 3 THEN Ret(GroupSum(file.rows))
    ELSE Raise("ValueError")

KeyBefore(a, b) == a.i < b.i \/ (a.i = b.i /\ a.j < b.j)
\* sort_values([row_idx_i, col_idx_j]) on rows with distinct keys.
RECURSIVE SortByKey(_)
SortByKey(recs) ==
    IF recs = {} THEN <<>>
    ELSE LET first == CHOOSE r \in recs: \A o \in recs \ {r}: KeyBefore(r, o)
         IN <<first>> \o SortByKey(recs \ {first})

\* The value a grouped frame holds for a key, 0 where the merge left NaN
\* (fillna, line 73).
ValueOr0(frame, ki, kj) ==
    LET at == {x \in 1..Len(frame): frame[x].i = ki /\ frame[x].j = kj}
    IN IF at = {} THEN 0 ELSE frame[CHOOSE x \in at: TRUE].v
FrameKeys(frame) == {<<frame[x].i, frame[x].j>>: x \in 1..Len(frame)}

\* build_report with the two frames merged on the common keys only.
build_report_inner(sw, hw) ==
    SortByKey({[i |-> k[1], j |-> k[2],
                gold |-> ValueOr0(sw, k[1], k[2]),
                hw |-> ValueOr0(hw, k[1], k[2]),
                match |-> IF isclose(ValueOr0(sw, k[1], k[2]),
                                     ValueOr0(hw, k[1], k[2]), TOL)
                          THEN 1 ELSE 0]:
               k \in FrameKeys(sw) \cap FrameKeys(hw)})

\* build_report, lines 70-77: outer merge on the key, NaN filled with 0,
\* match from np.isclose, sorted by key.
build_report(sw, hw) ==
    SortByKey({[i |-> k[1], j |-> k[2],
                gold |-> ValueOr0(sw, k[1], k[2]),
                hw |-> ValueOr0(hw, k[1], k[2]),
                match |-> IF isclose(ValueOr0(sw, k[1], k[2]),
                                     ValueOr0(hw, k[1], k[2]), TOL)
                          THEN 1 ELSE 0]:
               k \in FrameKeys(sw) \cup FrameKeys(hw)})

\* report["match"].all() with the two exit statuses exchanged.
exit_status_swapped(rep) ==
    IF \A x \in 1..Len(rep): rep[x].match = 1 THEN 1 ELSE 0
\* Lines 100-106: the exit status for a report.
exit_status(rep) ==
    IF \A x \in 1..Len(rep): rep[x].match = 1 THEN 0 ELSE 1
\* Line 104: bad = len(report) - report["match"].sum()
SumMatch(rep) == SumSeq([x \in 1..Len(rep) |-> rep[x].match])

\* The files the verifier is run on.
VKeys == {<<0, 1>>, <<1, 0>>, <<0, 0>>}
SwValues == {2 * UnitsPerOne, 4 * UnitsPerOne}
HwValues == {4 * UnitsPerOne, 4 * UnitsPerOne + 5, 4 * UnitsPerOne + 200}
FileRow(k, val, dummy) == [i |-> k[1], j |-> k[2], v |-> val, half |-> dummy]
SwRows == {FileRow(k, val, FALSE): k \in VKeys, val \in SwValues}
             \cup {FileRow(<<0, 0>>, 2 * UnitsPerOne, TRUE)}
HwRows(cols) ==
    {FileRow(k, val, FALSE):
        k \in (IF cols = 2 THEN {q \in VKeys: q[1] = 0} ELSE VKeys),
        val \in HwValues}
SeqsUpTo(S, n) == UNION {[1..k -> S]: k \in 0..n}
SwFiles ==
    {[exists |-> TRUE, header_ok |-> TRUE, rows |-> r]:
        r \in SeqsUpTo(SwRows, MaxRows)}
    \cup {[exists |-> e, header_ok |-> h, rows |-> <<>>]:
             e \in BOOLEAN, h \in BOOLEAN}
HwFiles ==
    UNION {{[exists |-> TRUE, cols |-> c, rows |-> r]:
               r \in SeqsUpTo(HwRows(c), MaxRows)}: c \in {2, 3}}
    \cup {[exists |-> e, cols |-> 4, rows |-> <<FileRow(<<0, 0>>, 0, FALSE)>>]:
             e \in BOOLEAN}

InitVerify ==
    /\ family = "cob_part1"
    /\ IdleGenerators /\ IdleQuant /\ IdleCompare /\ IdleEntry /\ IdlePipe
    /\ pc = "v_main"
    /\ sw_rows \in SwFiles /\ hw_rows \in HwFiles
    /\ report = <<>> /\ bad = 0 /\ exit_code = -1

\* Lines 92-95: a file that is not there ends the run with status 2.
V_CheckFiles ==
    /\ pc = "v_main"
    /\ IF sw_rows.exists /\ hw_rows.exists
       THEN pc' = "v_load" /\ UNCHANGED exit_code
       ELSE pc' = "v_usage" /\ exit_code' = 2
    /\ UNCHANGED <<sw_rows, hw_rows, report, bad, quantVars, compareVars, entryVars,
                   pipeVars>>
    /\ UNCHANGED <<inVars, preVars, strVars, planVars, i, p>>

\* Lines 97-98: the report is built and written; an exception of a loader is
\* not caught and ends the interpreter with status 1.
V_BuildReport ==
    /\ pc = "v_load"
    /\ LET sw == load_sw(sw_rows)
           hw == load_hw(hw_rows)
       IN IF sw.ok /\ hw.ok
          THEN /\ report' = build_report(sw.val, hw.val)
               /\ pc' = "v_report"
               /\ UNCHANGED exit_code
          ELSE /\ pc' = "v_crashed" /\ exit_code' = 1
               /\ UNCHANGED report
    /\ UNCHANGED <<sw_rows, hw_rows, bad, quantVars, compareVars, entryVars,
                   pipeVars>>
    /\ UNCHANGED <<inVars, preVars, strVars, planVars, i, p>>

\* Lines 100-106.
V_Exit ==
    /\ pc = "v_report"
    /\ exit_code' = exit_status(report)
    /\ bad' = IF exit_status(report) = 0 THEN bad
              ELSE Len(report) - SumMatch(report)
    /\ pc' = "v_exited"
    /\ UNCHANGED <<sw_rows, hw_rows, report, quantVars, compareVars, entryVars,
                   pipeVars>>
    /\ UNCHANGED <<inVars, preVars, strVars, planVars, i, p>>

VerifyNext == V_CheckFiles \/ V_BuildReport \/ V_Exit

\* ------------------------------------------- verifier.py: the comparison
\* (user_id, item_id) pairs the two files can hold.  A file holds a pair at
\* most once (cob_part3.py writes each user's items once), so a frame is a
\* set of rows with distinct keys.
NPairs == 3
PairOf(n) == [user_id |-> n \div 2, item_id |-> n % 2]
\* Ratings in units of 0.5: the golden rating, and the coprocessor's at a
\* distance of 0, 0.5 and 1.
GoldenRating == 12
CopRatings == {GoldenRating, GoldenRating + 1, GoldenRating + 2}
Frames(ratings) ==
    UNION {{ {[user_id |-> PairOf(n).user_id, item_id |-> PairOf(n).item_id,
               predicted_rating |-> f[n]]: n \in ks}: f \in [ks -> ratings]}:
           ks \in SUBSET (1..NPairs)}
RowKey(r) == <<r.user_id, r.item_id>>
FrameKeySet(df) == {RowKey(r): r \in df}
RatingOf(df, k) == (CHOOSE r \in df: RowKey(r) = k).predicted_rating

\* Lines 29-32: the outer merge with its indicator column.
merged_df(g, c) ==
    {[key |-> k,
      merge |-> IF k \in FrameKeySet(g) /\ k \in FrameKeySet(c) THEN "both"
                ELSE IF k \in FrameKeySet(g) THEN "left_only" ELSE "right_only",
      golden |-> IF k \in FrameKeySet(g) THEN RatingOf(g, k) ELSE 0,
      coprocessor |-> IF k \in FrameKeySet(c) THEN RatingOf(c, k) ELSE 0]:
     k \in FrameKeySet(g) \cup FrameKeySet(c)}
\* Lines 35 and 41.
uncommon_rows(m) == {r \in m: r.merge # "both"}
common_rows(m) == {r \in m: r.merge = "both"}
\* Lines 46-47 and 101: the common rows whose ratings differ by more than
\* the tolerance.
mismatched_ratings(m, tol) ==
    {r \in common_rows(m): Dist(r.golden, r.coprocessor) > tol}
\* (count / total) * 100 <= threshold, 0 percent for no rows (lines 38, 44-48,
\* 51-52).  The thresholds of the model are 0, 5, 25 and 50, for which the
\* float64 percentage is on the same side of the threshold as the exact one.
percent_within(count, total, threshold) ==
    IF total = 0 THEN 0 <= threshold ELSE 100 * count <= threshold * total
passed_id_check(m, threshold) ==
    percent_within(Cardinality(uncommon_rows(m)), Cardinality(m), threshold)
passed_rating_check(m, tol, threshold) ==
    percent_within(Cardinality(mismatched_ratings(m, tol)),
                   Cardinality(common_rows(m)), threshold)
\* The verdict passing when either check passes.
verdict_either(id_ok, rating_ok) == id_ok \/ rating_ok
\* Line 53.
verdict(id_ok, rating_ok) == id_ok /\ rating_ok
\* files_written with the summary written in every case.
files_written_always(ok, id_ok, rating_ok) ==
    {"verification_summary.csv"}
        \cup (IF ~ok /\ ~id_ok THEN {"id_mismatches.csv"} ELSE {})
        \cup (IF ~ok /\ ~rating_ok THEN {"rating_mismatches.csv"} ELSE {})
\* Lines 55-106: the files a comparison writes (a failure of the file system
\* while writing is not modelled).
files_written(ok, id_ok, rating_ok) ==
    IF ok THEN {"verification_summary.csv"}
    ELSE (IF ~id_ok THEN {"id_mismatches.csv"} ELSE {})
         \cup (IF ~rating_ok THEN {"rating_mismatches.csv"} ELSE {})

InitCompare ==
    /\ family = "cob_part1"
    /\ IdleGenerators /\ IdleQuant /\ IdleVerify /\ IdleEntry /\ IdlePipe
    /\ pc = "k_call"
    /\ \E rg \in BOOLEAN, rc \in BOOLEAN:
          /\ df_golden \in {[readable |-> rg, rows |-> f]:
                               f \in IF rg THEN Frames({GoldenRating}) ELSE {{}}}
          /\ df_coprocessor \in {[readable |-> rc, rows |-> f]:
                               f \in IF rc THEN Frames(CopRatings) ELSE {{}}}
    /\ tolerance \in {0, 1}
    /\ mismatch_threshold_percent \in {0, 5, 25, 50}
    /\ passed = "none" /\ files = {}

\* Lines 17-25: a file that cannot be read ends the comparison with False.
K_Read ==
    /\ pc = "k_call"
    /\ IF df_golden.readable /\ df_coprocessor.readable
       THEN pc' = "k_merge" /\ UNCHANGED passed
       ELSE pc' = "k_returned" /\ passed' = FALSE
    /\ UNCHANGED <<df_golden, df_coprocessor, tolerance,
                   mismatch_threshold_percent, files, quantVars, verifyVars, entryVars,
                   pipeVars>>
    /\ UNCHANGED <<inVars, preVars, strVars, planVars, i, p>>

\* Lines 27-108: the merge, the two checks, the files, the return.
K_Compare ==
    /\ pc = "k_merge"
    /\ LET m == merged_df(df_golden.rows, df_coprocessor.rows)
           id_ok == passed_id_check(m, mismatch_threshold_percent)
           rating_ok == passed_rating_check(m, tolerance,
                                            mismatch_threshold_percent)
       IN /\ passed' = verdict(id_ok, rating_ok)
          /\ files' = files_written(verdict(id_ok, rating_ok), id_ok, rating_ok)
    /\ pc' = "k_returned"
    /\ UNCHANGED <<df_golden, df_coprocessor, tolerance,
                   mismatch_threshold_percent, quantVars, verifyVars, entryVars,
                   pipeVars>>
    /\ UNCHANGED <<inVars, preVars, strVars, planVars, i, p>>

CompareNext == K_Read \/ K_Compare

\* ------------------------------------------------- entry points: main()
\* The alias tables of cob_part1.py lines 36-40 (partial_prod_gen.py lines
\* 27-31 hold the same).
UserAliases == {"user_id", "user", "row"}
ItemAliases == {"item_id", "movie_id", "item", "col"}
RatingAliases == {"rating", "value", "val"}

\* Lines 35-41: the loop over df.columns, from the columns still to visit
\* and the three names found so far.
RECURSIVE ScanColumns(_, _)
ScanColumns(columns, found) ==
    IF columns = <<>> THEN found
    ELSE LET col == Head(columns)
         IN ScanColumns(Tail(columns),
               IF col \in UserAliases THEN [found EXCEPT !.user = col]
               ELSE IF col \in ItemAliases THEN [found EXCEPT !.item = col]
               ELSE IF col \in RatingAliases THEN [found EXCEPT !.rating = col]
               ELSE found)
AnyNone(found) == "None" \in {found.user, found.item, found.rating}

\* The loader without the check of line 43.
load_matrix_from_csv_unchecked(columns) ==
    Ret(ScanColumns(columns, NoColumns))
\* cob_part1.py load_matrix_from_csv, lines 30-44: the scan, then ValueError
\* when a name is still None.
load_matrix_from_csv(columns) ==
    LET found == ScanColumns(columns, NoColumns)
    IN IF AnyNone(found) THEN Raise("ValueError") ELSE Ret(found)
\* partial_prod_gen.py load_matrix_from_csv, lines 21-42: the same scan and
\* no check; df[None] of line 35, 36 or 39 raises KeyError before the
\* constructor of line 38 is entered.
P_load_matrix_from_csv(columns) ==
    LET found == ScanColumns(columns, NoColumns)
    IN IF AnyNone(found) THEN Raise("KeyError") ELSE Ret(found)

\* The headers of the input table: distinct names (pandas renames a repeated
\* name), at most MaxHeader of them.
MaxHeader == 4
ColumnNames == {"user_id", "row", "item_id", "rating", "timestamp"}
Headers ==
    {h \in SeqsUpTo(ColumnNames, MaxHeader):
        \A x \in 1..Len(h), y \in 1..Len(h): h[x] = h[y] => x = y}
Loaders == {"cob_part1.py", "partial_prod_gen.py"}
Scripts == Loaders \cup {"cob_part3.py"}
\* The input of one run: whether the file is there, its header, whether the
\* processing after the load fails (memory, disk, a malformed row).
ScriptInputs(s) ==
    {[exists |-> e, columns |-> h, fault |-> f]:
        e \in BOOLEAN, f \in BOOLEAN,
        h \in IF s \in Loaders THEN Headers ELSE {<<>>}}

StartScript(s) ==
    /\ script = s /\ input \in ScriptInputs(s)
    /\ pc = "e_start"
    /\ resolved = NoColumns /\ matrix_built = FALSE
    /\ out_files = {} /\ exc = "none" /\ returncode = -1
InitEntry ==
    /\ family = "cob_part1"
    /\ IdleGenerators /\ IdleQuant /\ IdleVerify /\ IdleCompare /\ IdlePipe
    /\ \E s \in Scripts: StartScript(s)

\* An exception no handler of main takes: the interpreter prints the
\* traceback and exits with status 1.
Uncaught(e) ==
    /\ exc' = e /\ returncode' = 1 /\ pc' = "e_exited"
\* An exception a handler of main takes and prints: main returns and the
\* interpreter exits with status 0 (cob_part3.py lines 375-381).
Swallowed(e) ==
    /\ exc' = e /\ returncode' = 0 /\ pc' = "e_exited"
NotPipe == UNCHANGED <<inVars, preVars, strVars, planVars, i, p, quantVars,
                       verifyVars, compareVars, pipeVars>>

\* cob_part1.py main, lines 280-286: the load, then the .npz copy.
E1_Load ==
    /\ pc = "e_start" /\ script = "cob_part1.py"
    /\ IF ~input.exists
       THEN /\ Uncaught("FileNotFoundError")
            /\ UNCHANGED <<resolved, matrix_built, out_files>>
       ELSE LET r == load_matrix_from_csv(input.columns)
            IN IF ~r.ok
               THEN /\ Uncaught(r.exc)
                    /\ UNCHANGED <<resolved, matrix_built, out_files>>
               ELSE /\ resolved' = r.val
                    /\ matrix_built' = TRUE
                    /\ out_files' = {"user_item_matrix_processed.npz"}
                    /\ pc' = "e_loaded"
                    /\ UNCHANGED <<exc, returncode>>
    /\ UNCHANGED <<script, input>>
    /\ NotPipe

\* cob_part1.py main, lines 295-362: normalisation, estimate, generation,
\* in.csv and the timing file.
E1_Generate ==
    /\ pc = "e_loaded" /\ script = "cob_part1.py"
    /\ IF input.fault
       THEN /\ Uncaught("Exception")
            /\ UNCHANGED out_files
       ELSE /\ out_files' = out_files \cup {"in.csv", "cob1_timing_stats.csv"}
            /\ returncode' = 0 /\ pc' = "e_exited"
            /\ UNCHANGED exc
    /\ UNCHANGED <<script, input, resolved, matrix_built>>
    /\ NotPipe

\* partial_prod_gen.py main, lines 204-205.
E2_Load ==
    /\ pc = "e_start" /\ script = "partial_prod_gen.py"
    /\ IF ~input.exists
       THEN /\ Uncaught("FileNotFoundError")
            /\ UNCHANGED <<resolved, matrix_built>>
       ELSE LET r == P_load_matrix_from_csv(input.columns)
            IN IF ~r.ok
               THEN /\ Uncaught(r.exc)
                    /\ UNCHANGED <<resolved, matrix_built>>
               ELSE /\ resolved' = r.val
                    /\ matrix_built' = TRUE
                    /\ pc' = "e_loaded"
                    /\ UNCHANGED <<exc, returncode>>
    /\ UNCHANGED <<script, input, out_files>>
    /\ NotPipe

\* partial_prod_gen.py main, lines 208-222.
E2_Generate ==
    /\ pc = "e_loaded" /\ script = "partial_prod_gen.py"
    /\ IF input.fault
       THEN /\ Uncaught("Exception")
            /\ UNCHANGED out_files
       ELSE /\ out_files' = out_files \cup {"in.csv"}
            /\ returncode' = 0 /\ pc' = "e_exited"
            /\ UNCHANGED exc
    /\ UNCHANGED <<script, input, resolved, matrix_built>>
    /\ NotPipe

\* cob_part3.py main, lines 277-294: the two loads inside the try; a file
\* that is not there raises FileNotFoundError, which line 375 takes.
E3_Load ==
    /\ pc = "e_start" /\ script = "cob_part3.py"
    /\ IF ~input.exists
       THEN /\ Swallowed("FileNotFoundError")
            /\ UNCHANGED matrix_built
       ELSE /\ matrix_built' = TRUE
            /\ pc' = "e_loaded"
            /\ UNCHANGED <<exc, returncode>>
    /\ UNCHANGED <<script, input, resolved, out_files>>
    /\ NotPipe

\* cob_part3.py main, lines 297-373: the filtering and the two output
\* files; line 380 takes every other exception.
E3_Recommend ==
    /\ pc = "e_loaded" /\ script = "cob_part3.py"
    /\ IF input.fault
       THEN /\ Swallowed("Exception")
            /\ UNCHANGED out_files
       ELSE /\ out_files' = out_files \cup {"recommendations.csv",
                                            "performance_stats.csv"}
            /\ returncode' = 0 /\ pc' = "e_exited"
            /\ UNCHANGED exc
    /\ UNCHANGED <<script, input, resolved, matrix_built>>
    /\ NotPipe

\* verifier.py main, lines 110-127: the result is printed and main returns;
\* the interpreter exits with status 0.
K_Main ==
    /\ pc = "k_returned"
    /\ returncode' = 0
    /\ pc' = "k_exited"
    /\ UNCHANGED <<script, input, resolved, matrix_built, out_files, exc>>
    /\ NotPipe

\* test_spi.py run_script, lines 98-108, for a child that exited in time.
run_script(code) == code = 0

EntryNext ==
    \/ E1_Load \/ E1_Generate
    \/ E2_Load \/ E2_Generate
    \/ E3_Load \/ E3_Recommend
    \/ VerifyNext
    \/ CompareNext \/ K_Main

\* ------------------------------------- test_spi.py: the pipeline test
\* The n bytes of v, most significant first; for a negative v this is the
\* two's complement of v.
BytesBE(v, n) == [k \in 1..n |-> (v \div Pow2(8 * (n - k))) % 256]
U16Max == 65535
\* struct.pack('>IHHB', value, row, col, flags), line 44: 'I' takes
\* 0 .. 2^32 - 1 and 'H' takes 0 .. 65535, anything else raises
\* struct.error.  (The values of the model stay within 32 bits signed.)
struct_pack(val, row, col, flags) ==
    IF val < 0 \/ row < 0 \/ row > U16Max \/ col < 0 \/ col > U16Max
    THEN Raise("struct.error")
    ELSE Ret(BytesBE(val, 4) \o BytesBE(row, 2) \o BytesBE(col, 2)
             \o <<flags>>)
\* Line 43.
FlagsOf(last_flag) == IF last_flag THEN 1 ELSE 0

\* Lines 179-188: the arguments of the call of send_spi_frame number idx
\* (0-based): the data rows in order, then the flush frame.
FrameArgs(data, idx) ==
    IF idx < Len(data)
    THEN [val |-> data[idx + 1].prod, row |-> data[idx + 1].row,
          col |-> data[idx + 1].col, last_flag |-> (idx = Len(data) - 1)]
    ELSE [val |-> 0, row |-> data[Len(data)].row + 1, col |-> 0,
          last_flag |-> TRUE]

\* The waits of the source, in clock edges: 1000 (line 55) and 20000000
\* (line 192) there, a few edges here.
FrameWaitEdges == 2
max_timeout == 2
\* The triple files of the model: at most MaxFrames data rows.
MaxFrames == 2
CsvRows ==
    {[prod |-> v, row |-> r, col |-> 0]: v \in {-3, 5}, r \in {0, U16Max}}
CsvFiles == SeqsUpTo(CsvRows, MaxFrames)
PipeHeaders == {<<"user_id", "item_id", "rating">>, <<"user_id", "item_id">>}

InitPipe ==
    /\ family = "cob_part1"
    /\ IdleGenerators /\ IdleQuant /\ IdleVerify /\ IdleCompare
    /\ StartScript("cob_part1.py") /\ input.columns \in PipeHeaders
    /\ test_pc = "t_step1"
    /\ in_csv \in CsvFiles
    /\ csv_data = <<>> /\ frame_idx = 0 /\ timeout = 0 /\ sent = <<>>
    /\ spi_cs_n = 1 /\ in_valid = 0 /\ latched = 0
    /\ timing_stopped = 0 /\ completion_timeout = 0

NotScript == UNCHANGED <<inVars, preVars, strVars, planVars, i, p, quantVars,
                         verifyVars, compareVars>>
SameScript == UNCHANGED <<pc, entryVars>>

\* Lines 151-152 and 215-218: the child has exited and run_script returns;
\* False fails the assert.
T_StepDone ==
    /\ test_pc \in {"t_step1", "t_step3"}
    /\ pc = "e_exited"
    /\ test_pc' = IF ~run_script(returncode) THEN "t_failed"
                  ELSE IF test_pc = "t_step1" THEN "t_reset" ELSE "t_passed"
    /\ UNCHANGED <<in_csv, csv_data, frame_idx, timeout, sent, spi_cs_n,
                   in_valid, latched, timing_stopped, completion_timeout>>
    /\ SameScript /\ NotScript

\* Lines 96 and 110-113: communicate() times out, the child is killed and
\* run_script returns False.
T_StepTimeout ==
    /\ test_pc \in {"t_step1", "t_step3"}
    /\ pc \in {"e_start", "e_loaded"}
    /\ pc' = "e_killed"
    /\ test_pc' = "t_failed"
    /\ UNCHANGED <<in_csv, csv_data, frame_idx, timeout, sent, spi_cs_n,
                   in_valid, latched, timing_stopped, completion_timeout>>
    /\ UNCHANGED entryVars /\ NotScript

\* Lines 159-175: the SPI lines at rest, the reset, load_csv_data('in.csv');
\* no row fails the assert of line 175.
T_LoadCsv ==
    /\ test_pc = "t_reset"
    /\ spi_cs_n' = 1
    /\ csv_data' = IF "in.csv" \in out_files THEN in_csv ELSE <<>>
    /\ test_pc' = IF csv_data' = <<>> THEN "t_failed" ELSE "t_send"
    /\ frame_idx' = 0
    /\ UNCHANGED <<in_csv, timeout, sent, in_valid, latched, timing_stopped,
                   completion_timeout>>
    /\ SameScript /\ NotScript

\* send_spi_frame, lines 43-54: the frame is packed, struct.error ends the
\* test; the wait for in_valid starts at 0.
T_Pack ==
    /\ test_pc = "t_send"
    /\ LET a == FrameArgs(csv_data, frame_idx)
           f == struct_pack(a.val, a.row, a.col, FlagsOf(a.last_flag))
       IN test_pc' = IF f.ok THEN "t_wait" ELSE "t_error"
    /\ timeout' = 0
    /\ UNCHANGED <<in_csv, csv_data, frame_idx, sent, spi_cs_n, in_valid,
                   latched, timing_stopped, completion_timeout>>
    /\ SameScript /\ NotScript

\* Lines 55-57: one more clock edge with in_valid still 1.
T_WaitEdge ==
    /\ test_pc = "t_wait"
    /\ in_valid = 1 /\ timeout < FrameWaitEdges
    /\ timeout' = timeout + 1
    /\ UNCHANGED <<test_pc, in_csv, csv_data, frame_idx, sent, spi_cs_n,
                   in_valid, latched, timing_stopped, completion_timeout>>
    /\ SameScript /\ NotScript

\* Lines 53-61: in_valid is 0, or the wait is over (line 58 prints a
\* warning): chip-select goes low and the 72 bits follow.
T_ChipSelect ==
    /\ test_pc = "t_wait"
    /\ ~(in_valid = 1 /\ timeout < FrameWaitEdges)
    /\ LET a == FrameArgs(csv_data, frame_idx)
       IN sent' = Append(sent,
                     struct_pack(a.val, a.row, a.col, FlagsOf(a.last_flag)).val)
    /\ spi_cs_n' = 0
    /\ test_pc' = "t_shift"
    /\ UNCHANGED <<in_csv, csv_data, frame_idx, timeout, in_valid, latched,
                   timing_stopped, completion_timeout>>
    /\ SameScript /\ NotScript

\* Lines 73-78 and 179-189: chip-select goes high; the next data frame, the
\* flush frame after the last one, the wait for completion after that.
T_Shifted ==
    /\ test_pc = "t_shift"
    /\ spi_cs_n' = 1
    /\ frame_idx' = frame_idx + 1
    /\ test_pc' = IF frame_idx < Len(csv_data) THEN "t_send" ELSE "t_complete"
    /\ completion_timeout' = 0
    /\ UNCHANGED <<in_csv, csv_data, timeout, sent, in_valid, latched,
                   timing_stopped>>
    /\ SameScript /\ NotScript

\* Lines 194-203: one clock edge of the wait for timing_stopped.
T_CompleteEdge ==
    /\ test_pc = "t_complete"
    /\ completion_timeout < max_timeout
    /\ timing_stopped = 0
    /\ completion_timeout' = completion_timeout + 1
    /\ UNCHANGED <<test_pc, in_csv, csv_data, frame_idx, timeout, sent,
                   spi_cs_n, in_valid, latched, timing_stopped>>
    /\ SameScript /\ NotScript

\* Lines 197-215: timing_stopped is 1 (break) or the edges are used up
\* (line 206 prints a warning): run_script('cob_part3.py') starts the child.
T_PostProcess ==
    /\ test_pc = "t_complete"
    /\ completion_timeout >= max_timeout
          \/ (completion_timeout < max_timeout /\ timing_stopped = 1)
    /\ test_pc' = "t_step3"
    /\ script' = "cob_part3.py"
    /\ input' \in ScriptInputs("cob_part3.py")
    /\ pc' = "e_start"
    /\ resolved' = NoColumns /\ matrix_built' = FALSE
    /\ exc' = "none" /\ returncode' = -1
    /\ UNCHANGED <<out_files, in_csv, csv_data, frame_idx, timeout, sent,
                   spi_cs_n, in_valid, latched, timing_stopped,
                   completion_timeout>>
    /\ NotScript

\* The accelerator: a frame whose last bit has been shifted in is latched
\* and in_valid rises.
H_Latch ==
    /\ test_pc \in {"t_send", "t_wait", "t_shift", "t_complete"}
    /\ in_valid = 0
    /\ latched < Len(sent) - (1 - spi_cs_n)
    /\ in_valid' = 1
    /\ latched' = latched + 1
    /\ UNCHANGED <<test_pc, in_csv, csv_data, frame_idx, timeout, sent,
                   spi_cs_n, timing_stopped, completion_timeout>>
    /\ SameScript /\ NotScript

\* The accelerator: the latched frame is consumed and in_valid falls.
H_Consume ==
    /\ test_pc \in {"t_send", "t_wait", "t_shift", "t_complete"}
    /\ in_valid = 1
    /\ in_valid' = 0
    /\ UNCHANGED <<test_pc, in_csv, csv_data, frame_idx, timeout, sent,
                   spi_cs_n, latched, timing_stopped, completion_timeout>>
    /\ SameScript /\ NotScript

\* The accelerator: every frame consumed, the flush frame among them, it
\* signals processing complete.
H_Complete ==
    /\ test_pc = "t_complete"
    /\ in_valid = 0 /\ latched = Len(sent) /\ timing_stopped = 0
    /\ timing_stopped' = 1
    /\ UNCHANGED <<test_pc, in_csv, csv_data, frame_idx, timeout, sent,
                   spi_cs_n, in_valid, latched, completion_timeout>>
    /\ SameScript /\ NotScript

PipeNext ==
    \/ E1_Load \/ E1_Generate \/ E3_Load \/ E3_Recommend
    \/ T_StepDone \/ T_StepTimeout \/ T_LoadCsv
    \/ T_Pack \/ T_WaitEdge \/ T_ChipSelect \/ T_Shifted
    \/ T_CompleteEdge \/ T_PostProcess
    \/ H_Latch \/ H_Consume \/ H_Complete

\* ----------------------------------------------------------- specifications
Rand00Next ==
    \/ R_PreCall \/ R_PreNonzero \/ R_PreRowEnd \/ R_PreFinish
    \/ R_StrCall \/ R_StrNonzero \/ R_StrWrite \/ R_StrFinish

Next ==
    \/ Rand00Next
    \/ C_PreCall \/ C_PreNonzero \/ C_PreFinish
    \/ C_StrCall \/ C_StrNonzero \/ C_StrFinish
    \/ A_PreCall \/ A_PreNonzero \/ A_PreFinish
    \/ A_StrCall \/ A_StrNonzero \/ A_StrFinish
    \/ P_PreCall \/ P_PreNonzero \/ P_PreFinish
    \/ P_StrCall \/ P_StrNonzero \/ P_StrWrite \/ P_StrFinish

\* Well-formed inputs, every generator.
Spec == Init /\ [][Next]_vars
\* rand00.py's generators, which take AT as an argument, on CSR objects that
\* may be malformed.
SpecRaw == InitRaw /\ [][Rand00Next]_vars
\* main's choice of the strategy, on estimates around the switching point.
SpecPlan == InitPlan /\ [][M_SelectMode]_vars
\* One product through the quantizer of cob_part1.py and back through
\* cob_part3.py.
SpecQuant == InitQuant /\ [][QuantNext]_vars
\* Mul_verifier.py on a reference file and an observed file.
SpecVerify == InitVerify /\ [][VerifyNext]_vars
\* verifier.py's compare_recommendations on two recommendation files.
SpecCompare == InitCompare /\ [][CompareNext]_vars
\* The generators of rand00.py and partial_prod_gen.py as the interpreter
\* runs them: single-threaded, a call that can take a step takes it.
SpecFair == Init /\ [][Next]_vars /\ WF_vars(Next)
\* One run of an entry point: a generator's main, cob_part3.py, Mul_verifier.py
\* or verifier.py.
SpecEntry == (InitEntry \/ InitVerify \/ InitCompare) /\ [][EntryNext]_vars
\* The pipeline test of test_spi.py with its two child processes and the
\* accelerator.
SpecPipe == InitPipe /\ [][PipeNext]_vars


\* ------------------------------------------------------------ properties
\* What a run is specified to put out, stated on the CSR arrays alone.

\* The pairs (q, r): a stored entry q = (i, k) of A and a stored entry
\* r = (k, j) of AT in the row k that q names.
Pairs(a, at) ==
    {pr \in (0..Len(a.indices)-1) \X (0..Len(at.indices)-1):
        PyGet(a.indices, pr[1]) = RowOf(at, pr[2])}
PairTriple(a, at, pr) ==
    Triple(PyGet(a.data, pr[1]) * PyGet(at.data, pr[2]),
           RowOf(a, pr[1]), PyGet(at.indices, pr[2]))
Count(seq, t) == Cardinality({x \in 1..Len(seq): seq[x] = t})
\* seq holds one triple for every pair, and nothing else.
OnePerPair(seq, a, at) ==
    /\ Len(seq) = Cardinality(Pairs(a, at))
    /\ \A pr \in Pairs(a, at):
          Count(seq, PairTriple(a, at, pr)) =
             Cardinality({pq \in Pairs(a, at):
                             PairTriple(a, at, pq) = PairTriple(a, at, pr)})

\* The entry (r, k) of the matrix a stores, 0 when nothing is stored there.
Entry(a, r, k) ==
    LET here == {q \in 0..Len(a.indices)-1:
                    RowOf(a, q) = r /\ PyGet(a.indices, q) = k}
    IN IF here = {} THEN 0 ELSE PyGet(a.data, CHOOSE q \in here: TRUE)
\* The entry (r, c) of a * transpose(a).
DenseEntry(a, r, c) ==
    SumSeq([k \in 1..a.shape1 |-> Entry(a, r, k - 1) * Entry(a, c, k - 1)])
OfKey(seq, r, c) == SelectSeq(seq, LAMBDA t: t.i = r /\ t.j = c)
KeySum(seq, r, c) ==
    LET ts == OfKey(seq, r, c) IN SumSeq([x \in 1..Len(ts) |-> ts[x].v])
Keys(seq) == {<<seq[x].i, seq[x].j>>: x \in 1..Len(seq)}
\* Summing seq by key gives a * transpose(a); a key without a triple is a
\* zero entry.
AggregatesTo(seq, a) ==
    /\ Keys(seq) \subseteq (0..a.shape0-1) \X (0..a.shape0-1)
    /\ \A r \in 0..a.shape0-1, c \in 0..a.shape0-1:
          IF <<r, c>> \in Keys(seq)
          THEN KeySum(seq, r, c) = DenseEntry(a, r, c)
          ELSE DenseEntry(a, r, c) = 0

\* C1: in rand00.py, for well-formed A and AT = transpose(A), the value of
\* estimate_products(A, AT) is the number of triples either strategy writes:
\* the pre-allocated generator returns with its write cursor on P, and the
\* streaming generator's total_written is P.
C1_EstimateIsTripleCount ==
    (family = "rand00" /\ pc = "done") =>
        LET e == estimate_products(A, AT)
        IN /\ e.ok
           /\ pre_status = "returned" /\ ptr = e.val /\ Len(result) = e.val
           /\ str_status = "returned" /\ total_written = e.val

\* C2: summing the triples a generator emitted by key (i, j) gives the entry
\* (i, j) of A * transpose(A), and a key without a triple is a zero entry:
\* pre-allocated and streaming output of rand00.py and partial_prod_gen.py.
C2_TriplesSumToProduct ==
    (family \in {"rand00", "partial_prod_gen"} /\ pc = "done") =>
        /\ pre_status = "returned" /\ AggregatesTo(result, A)
        /\ str_status = "returned" /\ AggregatesTo(csv, A)

\* C3: rand00.py emits exactly one triple (a_ik * a_jk, i, j) for every pair
\* of a stored A[i,k] and a stored AT[k,j], in both modes; contributions to
\* one key (i, j) stay separate triples.
C3_OneTriplePerPair ==
    (family = "rand00" /\ pc = "done") =>
        /\ pre_status = "returned" /\ OnePerPair(result, A, AT)
        /\ str_status = "returned" /\ OnePerPair(csv, A, AT)

\* The value a generator of the given file writes for the product m.
Written(fam, m) == IF fam = "cob_part1" THEN Quantize(m, SCALE_FACTOR) ELSE m
WrittenTriple(fam, a, at, pr) ==
    LET t == PairTriple(a, at, pr) IN Triple(Written(fam, t.v), t.i, t.j)
NonZeroPairs(fam, a, at) ==
    {pr \in Pairs(a, at): WrittenTriple(fam, a, at, pr).v # 0}
\* seq holds every non-zero product once, and nothing else.
EveryNonZeroOnce(seq, fam, a, at) ==
    /\ Len(seq) = Cardinality(NonZeroPairs(fam, a, at))
    /\ \A pr \in NonZeroPairs(fam, a, at):
          Count(seq, WrittenTriple(fam, a, at, pr)) =
             Cardinality({pq \in NonZeroPairs(fam, a, at):
                 WrittenTriple(fam, a, at, pq) = WrittenTriple(fam, a, at, pr)})

\* C4: in cob_part1.py the pre-allocated and the streaming generator give,
\* for one matrix and one scale factor, the same set of keys (i, j) and the
\* same sum of quantized values under every key.
C4_ModesAgree ==
    (family = "cob_part1" /\ pc = "done") =>
        /\ pre_status = "returned" /\ str_status = "returned"
        /\ Keys(result) = Keys(csv)
        /\ \A key \in Keys(result) \cup Keys(csv):
              KeySum(result, key[1], key[2]) = KeySum(csv, key[1], key[2])

\* C5: for every chunk_size >= 1 the streaming generators of cob_part1.py and
\* partial_prod_gen_adv.py write every non-zero product to the sink exactly
\* once, whatever the size of one (i, k) batch relative to chunk_size, the
\* rest of the buffer included.
C5_StreamWritesAll ==
    (family \in {"cob_part1", "partial_prod_gen_adv"} /\ pc = "done") =>
        /\ str_status = "returned"
        /\ EveryNonZeroOnce(csv, family, A, AT)
        /\ total_written = Len(csv)

\* C6: in the pre-allocated generator, a write cursor that would pass the
\* allocated size P makes the generation fail with an error the caller sees;
\* the generator never returns the truncated array.
C6_OverflowFailsLoudly == overflow => pre_status # "returned"

\* A stored column index of A outside the row range of AT.
HasOutOfRange(a, at) ==
    \E q \in 1..Len(a.indices): a.indices[q] < 0 \/ a.indices[q] >= at.shape0
\* C7: when A stores a column index outside AT's row range, the estimator and
\* the generators of rand00.py treat it alike (all skip it or all reject it),
\* so the estimate is the number of triples generated.
C7_SamePolicy ==
    (pc = "done" /\ HasOutOfRange(A, AT)) =>
        LET e == estimate_products(A, AT)
        IN /\ e.ok
           /\ str_status = "returned" /\ total_written = e.val
           /\ pre_status = "returned" => Len(result) = e.val

\* C8: in every streaming generator the fill position stays within the
\* buffer, 0 <= buf_pos <= chunk_size, at every step; the buffer keeps its
\* chunk_size slots and nothing is written past them.
C8_BufferBounded ==
    /\ 0 <= buf_pos /\ buf_pos <= chunk_size
    /\ Len(buf) = chunk_size
\* A generator that has flushed once and filled the buffer again to the top.
C8_FullAfterFlush ==
    /\ str_status = "running" /\ total_written > 0
    /\ buf_pos = chunk_size

RowsAscend(seq) == \A x \in 1..Len(seq)-1: seq[x].i <= seq[x+1].i
\* C9: the row index i never decreases along the emitted sequence: along the
\* array the pre-allocated generator returns, along the sink, and, while a
\* streaming generator runs, along the sink followed by what the buffer holds
\* for the next flush.
C9_RowsNonDecreasing ==
    /\ RowsAscend(result)
    /\ RowsAscend(csv)
    /\ str_status = "running" => RowsAscend(csv \o PySlice(buf, 0, buf_pos))
\* A finished run whose output spans two rows in both modes, the streamed
\* one written in more than one flush.
C9_TwoRowsTwoFlushes ==
    /\ pc = "done" /\ str_status = "returned" /\ pre_status = "returned"
    /\ Len(result) > 1 /\ result[1].i < result[Len(result)].i
    /\ Len(csv) > chunk_size /\ csv[1].i < csv[Len(csv)].i

\* C10: main selects "prealloc" exactly when the estimate times 12 bytes is at
\* most 4 GiB (2^32 bytes, i.e. 3 * products <= 2^30) and "stream" otherwise;
\* the mode is a function of the estimate alone.
C10_ModeFollowsEstimate ==
    pc = "planned" =>
        /\ mode \in {"prealloc", "stream"}
        /\ mode = "prealloc" <=> 3 * products <= Pow2(30)
\* The first estimate that no longer fits has been planned.
C10_FirstStreamed ==
    pc = "planned" /\ products = PlanCentre + 1 /\ mode = "stream"

\* f in units of 2^-k (k large enough for the result to be an integer).
InUnits(f, k) == f.num * Pow2(f.exp + k)
\* C11: for every product v whose scaled value fits int32, quantizing
\* (v * scale_factor to int32) and dequantizing (integer / scale_factor) gives
\* a value within 0.5 / scale_factor of v: the integer is the nearest one to
\* v * scale_factor.
C11_RoundTripWithinHalfStep ==
    (pc = "q_descaled" /\ FitsInt32(FMulPow2(value, SCALE_FACTOR))) =>
        LET k == Max(Log2(SCALE_FACTOR), -value.exp)
        IN 2 * SCALE_FACTOR * Dist(InUnits(descaled, k), InUnits(value, k))
              <= Pow2(k)

\* C12: when v * scale_factor is outside the int32 range, the quantizer
\* saturates to the int32 bounds or rejects the value; it never writes some
\* other integer.  (No step of the quantizer rejects: a value is written.)
C12_OverflowSaturates ==
    (pc = "q_scaled" /\ ~FitsInt32(FMulPow2(value, SCALE_FACTOR))) =>
        scaled_int = Saturate32(FMulPow2(value, SCALE_FACTOR))

\* C13: every triple cob_part1.py writes to its output file, from the array
\* of the pre-allocated generator or from the streaming generator, has a
\* non-zero value.
C13_NoZeroWritten ==
    family = "cob_part1" =>
        /\ \A x \in 1..Len(result): result[x].v # 0
        /\ \A x \in 1..Len(csv): csv[x].v # 0

\* The two streams as the verifier reads them: the reference rows without
\* the dummy rows, the observed rows with row 0 for a two-column file.
SwStream == SelectSeq(sw_rows.rows, LAMBDA r: ~r.half)
HwStream ==
    IF hw_rows.cols = 2
    THEN [x \in 1..Len(hw_rows.rows) |-> [hw_rows.rows[x] EXCEPT !.i = 0]]
    ELSE hw_rows.rows
StreamKeys(rows) == {<<rows[x].i, rows[x].j>>: x \in 1..Len(rows)}
StreamSum(rows, k) ==
    LET of == SelectSeq(rows, LAMBDA r: r.i = k[1] /\ r.j = k[2])
    IN SumSeq([x \in 1..Len(of) |-> of[x].v])
ReportBuilt == pc \in {"v_report", "v_exited"}

\* C14: the report is the full outer join of the per-key sums: one record for
\* every key of the reference or the observed stream, gold and hw the sums of
\* the values under that key in each stream, records ascending by (i, j).
C14_ReportIsOuterJoin ==
    ReportBuilt =>
        /\ {<<report[x].i, report[x].j>>: x \in 1..Len(report)}
              = StreamKeys(SwStream) \cup StreamKeys(HwStream)
        /\ Len(report) = Cardinality(StreamKeys(SwStream) \cup StreamKeys(HwStream))
        /\ \A x \in 1..Len(report):
              /\ report[x].gold = StreamSum(SwStream, <<report[x].i, report[x].j>>)
              /\ report[x].hw = StreamSum(HwStream, <<report[x].i, report[x].j>>)
        /\ \A x \in 1..Len(report)-1: KeyBefore(report[x], report[x+1])
\* A report of three keys, one of them the sum of two reference rows.
C14_ThreeKeysOneSum ==
    /\ pc = "v_exited" /\ Len(report) = 3
    /\ \E x \in 1..3: report[x].gold = 6 * UnitsPerOne

\* C15: for a key of both streams, match is 1 exactly when |gold - hw| <= TOL,
\* whatever the size of the values.
C15_MatchIsAbsolute ==
    ReportBuilt =>
        \A x \in 1..Len(report):
            <<report[x].i, report[x].j>>
                \in StreamKeys(SwStream) \cap StreamKeys(HwStream)
            => (report[x].match = 1 <=> Dist(report[x].gold, report[x].hw) <= TOL)

\* The example of C16: reference {(0,0): 4.0}, observed {(0,0): 4.0000005}.
C16_Example ==
    /\ ReportBuilt
    /\ SwStream = <<FileRow(<<0, 0>>, 4 * UnitsPerOne, FALSE)>>
    /\ HwStream = <<FileRow(<<0, 0>>, 4 * UnitsPerOne + 5, FALSE)>>
\* C16 as stated: on the example the verifier reports matched = 0 with
\* tolerance 1e-6 and matched = 1 with tolerance 1e-3.
C16_AsStated ==
    C16_Example =>
        /\ Len(report) = 1 /\ report[1].match = 0
        /\ isclose(report[1].gold, report[1].hw, 1000 * TOL)
\* C16: on the example the verifier reports matched = 1 with tolerance 1e-6
\* (the values differ by 5e-7), and matched = 1 with tolerance 1e-3.
C16_ExampleMatches ==
    C16_Example =>
        /\ Len(report) = 1 /\ report[1].match = 1
        /\ isclose(report[1].gold, report[1].hw, 1000 * TOL)
\* The example has run to the end.
C16_ExampleExited == C16_Example /\ pc = "v_exited" /\ exit_code = 0

\* C17: a key of the reference stream that the observed stream lacks gives a
\* record that says so: the report differs from the one an observed value 0
\* under that key would give, and the key is not counted among the value
\* mismatches main reports.
C17_MissingKeyIsDistinct ==
    pc = "v_exited" =>
        \A k \in StreamKeys(SwStream) \ StreamKeys(HwStream):
            /\ report # build_report(GroupSum(SwStream),
                           GroupSum(Append(HwStream, FileRow(k, 0, FALSE))))
            /\ bad = Cardinality({x \in 1..Len(report):
                        /\ <<report[x].i, report[x].j>> \in StreamKeys(HwStream)
                        /\ <<report[x].i, report[x].j>> \in StreamKeys(SwStream)
                        /\ report[x].match = 0})

\* C20: main exits with status 0 exactly when every record of the report has
\* match = 1; otherwise the status is not 0 and the count it prints is the
\* number of records with match = 0.
C20_ExitStatus ==
    /\ exit_code = 0 => pc = "v_exited"
    /\ pc \in {"v_usage", "v_crashed"} => exit_code > 0
    /\ pc = "v_exited" =>
          /\ exit_code = 0 <=> \A x \in 1..Len(report): report[x].match = 1
          /\ exit_code # 0 =>
                /\ exit_code > 0
                /\ bad = Cardinality({x \in 1..Len(report): report[x].match = 0})
\* A failing run with two records that do not match.
C20_TwoMismatches == pc = "v_exited" /\ exit_code = 1 /\ bad = 2

\* The keys of the two files, and the keys whose ratings disagree.
OnlyOneFile ==
    (FrameKeySet(df_golden.rows) \cup FrameKeySet(df_coprocessor.rows))
        \ (FrameKeySet(df_golden.rows) \cap FrameKeySet(df_coprocessor.rows))
InBothFiles == FrameKeySet(df_golden.rows) \cap FrameKeySet(df_coprocessor.rows)
Disagreeing ==
    {k \in InBothFiles:
        Dist(RatingOf(df_golden.rows, k), RatingOf(df_coprocessor.rows, k))
            > tolerance}
IdRateOK ==
    100 * Cardinality(OnlyOneFile)
        <= mismatch_threshold_percent * Cardinality(OnlyOneFile \cup InBothFiles)
RatingRateOK ==
    100 * Cardinality(Disagreeing)
        <= mismatch_threshold_percent * Cardinality(InBothFiles)
Compared == pc = "k_returned" /\ df_golden.readable /\ df_coprocessor.readable

\* C18: compare_recommendations passes exactly when the share of keys found
\* in one file only, among all keys, and the share of common keys whose
\* ratings differ by more than the tolerance, among the common keys, are both
\* within mismatch_threshold_percent; a key of one file only never counts as
\* a rating mismatch.
C18_PassIffBothWithin ==
    Compared => (passed = TRUE <=> (IdRateOK /\ RatingRateOK))
\* A pass at the threshold itself, with a key in one file only and a
\* disagreeing rating present.
C18_PassAtThreshold ==
    /\ Compared /\ passed = TRUE
    /\ OnlyOneFile # {} /\ Disagreeing # {}

StrRemaining ==
    IF family = "rand00" THEN R_nnz_k(p) - cur ELSE Len(S_Batch(p)) - cur
StrSpaceLeft == chunk_size - buf_pos
Splitting == {"rand00", "partial_prod_gen"}

\* C26: for every well-formed CSR input and every chunk_size >= 1 the
\* streaming generators of rand00.py and partial_prod_gen.py run to
\* completion: when a pass of the buffer-filling loop starts the buffer has
\* a free slot and the batch has a product left, so the pass takes at least
\* one product, and the function eventually returns.
C26_StreamsTerminate ==
    /\ [](family \in Splitting /\ pc = "str_write" =>
             /\ StrSpaceLeft >= 1
             /\ StrRemaining >= 1
             /\ str_status = "running")
    /\ (family \in Splitting => <>(str_status = "returned"))
\* A batch that did not fit: one slot, two flushes inside the loop or more.
C26_SplitBatchReturned ==
    /\ family = "rand00" /\ str_status = "returned"
    /\ chunk_size = 1 /\ total_written >= 3

\* The fill of the buffer in the pass about to start, partial_prod_gen.py.
P_ValidCount ==
    LET write_count == Min(StrRemaining, StrSpaceLeft)
    IN Len(NonZero(PySlice(S_Batch(p), cur, cur + write_count)))
\* C27: in produce_products_stream_scipy_optimized the fill is below 90% of
\* chunk_size after every flush check, the guard of line 174 holds at every
\* write, and no non-zero product is skipped: total_written is the number of
\* non-zero products of the traversal, each written once, for every
\* chunk_size >= 1.
C27_NothingSkipped ==
    family = "partial_prod_gen" =>
        /\ pc \in {"str_inner", "str_write"} => 10 * buf_pos < 9 * chunk_size
        /\ pc = "str_write" => P_HasRoom(buf_pos, P_ValidCount, chunk_size)
        /\ pc = "done" =>
              /\ str_status = "returned"
              /\ total_written = Cardinality(NonZeroPairs(family, A, AT))
              /\ EveryNonZeroOnce(csv, family, A, AT)
\* A batch of two products through a buffer of two slots, flushed on the way.
C27_FlushedOnTheWay ==
    /\ family = "partial_prod_gen" /\ pc = "done"
    /\ chunk_size = 2 /\ total_written >= 3

\* C28: produce_products_prealloc of rand00.py returns normally for every
\* well-formed A with at least one estimated product, whichever rows of A
\* are empty: the check after the inner loop reads assigned values only.
C28_PreallocReturns ==
    (family = "rand00" /\ pre_status # "idle" /\ estimate_products(A, AT).ok
        /\ estimate_products(A, AT).val >= 1) =>
        /\ pre_status # "raised"
        /\ (pc = "done" => pre_status = "returned")

\* ------------------------------------------------------- the entry points
\* The run has ended, and the status the caller reads.
Exited == pc \in {"e_exited", "k_exited", "v_usage", "v_crashed", "v_exited"}
ExitStatus ==
    IF pc \in {"v_usage", "v_crashed", "v_exited"} THEN exit_code
    ELSE returncode
\* The run met a fatal error: an exception in a generator's main or in
\* cob_part3.py, a file Mul_verifier.py or verifier.py could not read, an
\* exception in Mul_verifier.py.
FatalError ==
    \/ pc = "e_exited" /\ exc # "none"
    \/ pc \in {"v_usage", "v_crashed"}
    \/ pc = "k_exited" /\ ~(df_golden.readable /\ df_coprocessor.readable)

\* C21: every fatal error in an entry point (missing input file, missing
\* required column, exception during processing) ends the process with a
\* non-zero exit status, so run_script does not report the step successful.
C21_FatalErrorsExitNonZero ==
    (Exited /\ FatalError) => (ExitStatus # 0 /\ ~run_script(ExitStatus))

\* No column of the header is an alias of one of the three fields.
MissingRequired(h) ==
    \E al \in {UserAliases, ItemAliases, RatingAliases}:
        \A x \in 1..Len(h): h[x] \notin al
\* C22: with a required column missing, the loader fails before a matrix is
\* built and before a product is generated or compared, and the run writes
\* no output file: load_matrix_from_csv raises (cob_part1.py,
\* partial_prod_gen.py) and load_sw raises (Mul_verifier.py).
C22_SchemaErrorBeforeAnything ==
    /\ (script \in Loaders /\ input.exists /\ MissingRequired(input.columns)
           /\ pc # "e_start") =>
          /\ pc = "e_exited" /\ exc \in {"ValueError", "KeyError"}
          /\ ~matrix_built /\ out_files = {} /\ returncode # 0
    /\ (pc \in {"v_report", "v_crashed", "v_exited"}
           /\ ~sw_rows.header_ok) =>
          /\ pc = "v_crashed" /\ report = <<>> /\ exit_code # 0
\* A table with a user and an item column and no rating column.
C22_NoRatingColumn ==
    /\ script = "cob_part1.py" /\ pc = "e_exited" /\ exc = "ValueError"
    /\ input.columns = <<"user_id", "item_id", "timestamp">>

\* The first column of the header that is one of the aliases.
FirstMatch(h, al) ==
    h[CHOOSE x \in 1..Len(h):
         h[x] \in al /\ \A y \in 1..(x - 1): h[y] \notin al]
\* C23: when several columns match aliases of one field, load_matrix_from_csv
\* resolves the field to the first matching column of the scan; later
\* matching columns do not replace it.
C23_FirstMatchWins ==
    (script \in Loaders /\ matrix_built) =>
        /\ resolved.user = FirstMatch(input.columns, UserAliases)
        /\ resolved.item = FirstMatch(input.columns, ItemAliases)
        /\ resolved.rating = FirstMatch(input.columns, RatingAliases)

\* ------------------------------------------------------ the pipeline test
\* The 9 bytes the wire format gives the call number idx of send_spi_frame:
\* value in two's complement, row, column, flag.
WireFrame(data, idx) ==
    LET a == FrameArgs(data, idx)
    IN BytesBE(a.val, 4) \o BytesBE(a.row, 2) \o BytesBE(a.col, 2)
          \o <<IF a.last_flag THEN 1 ELSE 0>>
\* A quantized triple: an int32 value, a 16-bit row and column.
QuantizedTriple(a) ==
    /\ Int32Min <= a.val /\ a.val <= Int32Max
    /\ 0 <= a.row /\ a.row <= U16Max
    /\ 0 <= a.col /\ a.col <= U16Max

\* C24: send_spi_frame encodes every quantized triple read from the triple
\* file as exactly 9 bytes: the value as 4 bytes big-endian two's complement
\* (negative values are accepted), 2 bytes of row, 2 bytes of column and a
\* flag byte whose low bit is 1 exactly when last_flag is set.
C24_NineByteFrames ==
    /\ \A k \in 1..Len(sent):
          Len(sent[k]) = 9 /\ sent[k] = WireFrame(csv_data, k - 1)
    /\ (test_pc = "t_error" /\ frame_idx < Len(csv_data)) =>
          ~QuantizedTriple(FrameArgs(csv_data, frame_idx))

\* C25: the stages run in order and the core blocks on the accelerator: no
\* frame is sent unless cob_part1.py succeeded, and cob_part3.py starts only
\* after the accelerator has signalled processing complete.
C25_StagesInOrder ==
    /\ (sent # <<>> \/ test_pc \in {"t_send", "t_wait", "t_shift"}) =>
          "in.csv" \in out_files
    /\ script = "cob_part3.py" => timing_stopped = 1

\* C29: send_spi_frame never starts a frame while in_valid is asserted:
\* chip-select goes low only when in_valid is 0, across every interleaving
\* of the sender with the accelerator.
C29_SelectOnlyWhenConsumed ==
    [][(spi_cs_n = 1 /\ spi_cs_n' = 0) => in_valid = 0]_vars

\* C30: for a triple file with N >= 1 data rows the test sends the N data
\* frames in file order, the last flag on the N-th only, then exactly one
\* flush frame (value 0, last row + 1, column 0, last flag) before it waits
\* for completion.
C30_FramesThenFlush ==
    csv_data # <<>> =>
        /\ Len(sent) <= Len(csv_data) + 1
        /\ \A k \in 1..Len(sent): sent[k] = WireFrame(csv_data, k - 1)
        /\ test_pc \notin {"t_reset", "t_send", "t_wait", "t_shift"} =>
              Len(sent) = Len(csv_data) + 1
====
